---------------------------- MODULE Spec2Model ----------------------------
(***************************************************************************)
(* A model of the transliteration service of dbryar/govhack2025: the API   *)
(* handlers Transliterate, GetTransliteration and SubmitFeedback over the  *)
(* tables transliterations, transliteration_feedback and                   *)
(* character_mappings, the character transliteration functions of the      *)
(* service and of the transliteration Engine, and the script detector.     *)
(*                                                                         *)
(* A Go string is modelled as the sequence of its UTF-8 units: a code      *)
(* point (a natural number) for each validly encoded rune and BadByte for  *)
(* a byte that is not part of a valid encoding.  Script names, error       *)
(* messages and feedback types are TLA+ strings.                           *)
(***************************************************************************)
EXTENDS Integers, Sequences, FiniteSets, TLC

VARIABLES
  transliterations,          \* table transliterations, in insertion order
  transliteration_feedback,  \* table transliteration_feedback, in insertion order
  character_mappings,        \* table character_mappings (no handler writes it)
  now,                       \* the database clock behind NOW()
  call,                      \* the latest API call with what it returned
  responses,                 \* history: the distinct (request, response) pairs
                             \* Transliterate returned, in the order of their first return
  in,                        \* inputs of the pure functions under check
  out                        \* the latest pure-function result

vars == <<transliterations, transliteration_feedback, character_mappings, now,
          call, responses, in, out>>

-----------------------------------------------------------------------------
(* Bounds of the model *)

\* longest text, in runes, handed to the character transliteration functions
MaxLen == 2
\* longest text, in runes, handed to the script detector
MaxDetectLen == 3
\* cap on usage_count: a cache hit is not taken once a row was used this often
MaxUsage == 2
\* cap on the number of transliteration_feedback rows
MaxFeedback == 1

\* words of a name handed to the name parsers and the gender inference
MaxNameTokens == 3

(* Program constants *)

\* validateTransliterationRequest / validateFeedbackRequest: len(...) > 10000
MaxTextBytes == 10000
\* isValidUUID: len(uuid) != 36
UuidLen == 36
\* utf8.RuneError, what range yields for an invalid byte
RuneError == 65533

-----------------------------------------------------------------------------
(* Go strings *)

Nil == <<>>              \* a nil pointer, and SQL NULL
Ptr(x) == <<x>>          \* a pointer to x, and a non-NULL column value
Deref(p) == p[1]
NoErr == "nil"           \* the nil error
BadByte == 0 - 1         \* a byte outside any valid UTF-8 encoding

\* for _, r := range text: the runes of a string; an invalid byte decodes to RuneError
Runes(text) == [i \in 1..Len(text) |-> IF text[i] = BadByte THEN RuneError ELSE text[i]]

\* utf8.ValidString
ValidString(text) == \A i \in 1..Len(text) : text[i] # BadByte

\* number of bytes of the UTF-8 encoding of one unit
Utf8Len(u) ==
  IF u = BadByte \/ u < 128 THEN 1
  ELSE IF u < 2048 THEN 2
  ELSE IF u < 65536 THEN 3 ELSE 4

\* len(text): the length of a Go string in bytes
ByteLen(text) ==
  Cardinality({p \in (1..Len(text)) \X (1..4) : p[2] <= Utf8Len(text[p[1]])})

\* len(text) > n; every unit takes at least one byte, so a text of more than n
\* units needs no count
LongerThan(text, n) == Len(text) > n \/ ByteLen(text) > n

RECURSIVE Concat(_)
\* strings.Builder: the concatenation of a sequence of strings
Concat(parts) == IF parts = <<>> THEN <<>> ELSE Head(parts) \o Concat(Tail(parts))

\* all sequences over S of length at most n
SeqUpTo(S, n) == UNION {[1..k -> S] : k \in 0..n}

-----------------------------------------------------------------------------
(* Package unicode, on the code points the model uses.  Each predicate is  *)
(* given by the ranges of its Unicode category that the tables and the     *)
(* alphabets of this module touch.                                         *)

\* unicode.IsLetter (categories L*)
IsLetter(r) ==
  \/ r \in 65..90 \/ r \in 97..122
  \/ r \in {170, 181, 186}
  \/ r \in 192..214 \/ r \in 216..246 \/ r \in 248..705
  \/ r \in 913..929 \/ r \in 931..1013
  \/ r \in 1024..1153 \/ r \in 1162..1327
  \/ r \in 1488..1514
  \/ r \in 1568..1610
  \/ r \in 3585..3632 \/ r \in 3634..3635 \/ r \in 3648..3654
  \/ r \in 7680..7935
  \/ r \in 12353..12438 \/ r \in 12449..12538
  \/ r \in 13312..19903 \/ r \in 19968..40959
  \/ r \in 44032..55203

\* unicode.IsDigit (category Nd)
IsDigit(r) == r \in 48..57 \/ r \in 1632..1641 \/ r \in 1776..1785

\* unicode.IsSpace
IsSpace(r) ==
  \/ r \in 9..13 \/ r = 32 \/ r = 133 \/ r = 160
  \/ r = 5760 \/ r \in 8192..8202 \/ r \in {8232, 8233, 8239, 8287, 12288}

\* unicode.IsPunct (categories P*)
IsPunct(r) ==
  \/ r \in 33..35 \/ r \in 37..42 \/ r \in 44..47 \/ r \in {58, 59, 63, 64}
  \/ r \in 91..93 \/ r \in {95, 123, 125}
  \/ r \in {161, 167, 171, 182, 183, 187, 191}
  \/ r \in 8208..8231 \/ r \in 12289..12291

\* strings.TrimSpace(text) == "": every rune is white space
TrimSpaceIsEmpty(text) ==
  \A i \in 1..Len(text) : IsSpace(IF text[i] = BadByte THEN RuneError ELSE text[i])

-----------------------------------------------------------------------------
(* Built-in character tables, code point |-> output string *)

\* cyrillicMap of transliterateCyrillicToLatin (code point -> code points)
cyrillicMap ==
  (1040 :> <<65>>) @@ (1041 :> <<66>>) @@ (1042 :> <<86>>) @@ (1043 :> <<71>>) @@
  (1044 :> <<68>>) @@ (1045 :> <<69>>) @@ (1025 :> <<89, 111>>) @@ (1046 :> <<90, 104>>) @@
  (1047 :> <<90>>) @@ (1048 :> <<73>>) @@ (1049 :> <<89>>) @@ (1050 :> <<75>>) @@
  (1051 :> <<76>>) @@ (1052 :> <<77>>) @@ (1053 :> <<78>>) @@ (1054 :> <<79>>) @@
  (1055 :> <<80>>) @@ (1056 :> <<82>>) @@ (1057 :> <<83>>) @@ (1058 :> <<84>>) @@
  (1059 :> <<85>>) @@ (1060 :> <<70>>) @@ (1061 :> <<75, 104>>) @@ (1062 :> <<84, 115>>) @@
  (1063 :> <<67, 104>>) @@ (1064 :> <<83, 104>>) @@ (1065 :> <<83, 104, 99, 104>>) @@
  (1066 :> <<>>) @@ (1067 :> <<89>>) @@ (1068 :> <<>>) @@ (1069 :> <<69>>) @@
  (1070 :> <<89, 117>>) @@ (1071 :> <<89, 97>>) @@ (1072 :> <<97>>) @@ (1073 :> <<98>>) @@
  (1074 :> <<118>>) @@ (1075 :> <<103>>) @@ (1076 :> <<100>>) @@ (1077 :> <<101>>) @@
  (1105 :> <<121, 111>>) @@ (1078 :> <<122, 104>>) @@ (1079 :> <<122>>) @@ (1080 :> <<105>>) @@
  (1081 :> <<121>>) @@ (1082 :> <<107>>) @@ (1083 :> <<108>>) @@ (1084 :> <<109>>) @@
  (1085 :> <<110>>) @@ (1086 :> <<111>>) @@ (1087 :> <<112>>) @@ (1088 :> <<114>>) @@
  (1089 :> <<115>>) @@ (1090 :> <<116>>) @@ (1091 :> <<117>>) @@ (1092 :> <<102>>) @@
  (1093 :> <<107, 104>>) @@ (1094 :> <<116, 115>>) @@ (1095 :> <<99, 104>>) @@
  (1096 :> <<115, 104>>) @@ (1097 :> <<115, 104, 99, 104>>) @@ (1098 :> <<>>) @@
  (1099 :> <<121>>) @@ (1100 :> <<>>) @@ (1101 :> <<101>>) @@ (1102 :> <<121, 117>>) @@
  (1103 :> <<121, 97>>)

\* chineseMap of transliterateChineseToLatin
chineseMap ==
  (20320 :> <<110, 105>>) @@ (22909 :> <<104, 97, 111>>) @@ (26159 :> <<115, 104, 105>>) @@
  (30340 :> <<100, 101>>) @@ (25105 :> <<119, 111>>) @@ (20182 :> <<116, 97>>) @@
  (22905 :> <<116, 97>>) @@ (20204 :> <<109, 101, 110>>) @@ (26377 :> <<121, 111, 117>>) @@
  (22312 :> <<122, 97, 105>>) @@ (20102 :> <<108, 101>>) @@ (19981 :> <<98, 117>>) @@
  (23601 :> <<106, 105, 117>>) @@ (20154 :> <<114, 101, 110>>) @@
  (37117 :> <<100, 111, 117>>) @@ (19968 :> <<121, 105>>) @@ (20108 :> <<101, 114>>) @@
  (19977 :> <<115, 97, 110>>) @@ (22235 :> <<115, 105>>) @@ (20116 :> <<119, 117>>) @@
  (20845 :> <<108, 105, 117>>) @@ (19971 :> <<113, 105>>) @@ (20843 :> <<98, 97>>) @@
  (20061 :> <<106, 105, 117>>) @@ (21313 :> <<115, 104, 105>>)

\* arabicMap of transliterateArabicToLatin
arabicMap ==
  (1575 :> <<97>>) @@ (1576 :> <<98>>) @@ (1578 :> <<116>>) @@ (1579 :> <<116, 104>>) @@
  (1580 :> <<106>>) @@ (1581 :> <<104>>) @@ (1582 :> <<107, 104>>) @@ (1583 :> <<100>>) @@
  (1584 :> <<100, 104>>) @@ (1585 :> <<114>>) @@ (1586 :> <<122>>) @@ (1587 :> <<115>>) @@
  (1588 :> <<115, 104>>) @@ (1589 :> <<115>>) @@ (1590 :> <<100>>) @@ (1591 :> <<116>>) @@
  (1592 :> <<122>>) @@ (1593 :> <<39>>) @@ (1594 :> <<103, 104>>) @@ (1601 :> <<102>>) @@
  (1602 :> <<113>>) @@ (1603 :> <<107>>) @@ (1604 :> <<108>>) @@ (1605 :> <<109>>) @@
  (1606 :> <<110>>) @@ (1607 :> <<104>>) @@ (1608 :> <<119>>) @@ (1610 :> <<121>>)

\* greekMap of transliterateGreekToLatin
greekMap ==
  (913 :> <<65>>) @@ (914 :> <<66>>) @@ (915 :> <<71>>) @@ (916 :> <<68>>) @@
  (917 :> <<69>>) @@ (918 :> <<90>>) @@ (919 :> <<72>>) @@ (920 :> <<84, 104>>) @@
  (921 :> <<73>>) @@ (922 :> <<75>>) @@ (923 :> <<76>>) @@ (924 :> <<77>>) @@
  (925 :> <<78>>) @@ (926 :> <<88>>) @@ (927 :> <<79>>) @@ (928 :> <<80>>) @@
  (929 :> <<82>>) @@ (931 :> <<83>>) @@ (932 :> <<84>>) @@ (933 :> <<89>>) @@
  (934 :> <<80, 104>>) @@ (935 :> <<67, 104>>) @@ (936 :> <<80, 115>>) @@ (937 :> <<79>>) @@
  (945 :> <<97>>) @@ (946 :> <<98>>) @@ (947 :> <<103>>) @@ (948 :> <<100>>) @@
  (949 :> <<101>>) @@ (950 :> <<122>>) @@ (951 :> <<104>>) @@ (952 :> <<116, 104>>) @@
  (953 :> <<105>>) @@ (954 :> <<107>>) @@ (955 :> <<108>>) @@ (956 :> <<109>>) @@
  (957 :> <<110>>) @@ (958 :> <<120>>) @@ (959 :> <<111>>) @@ (960 :> <<112>>) @@
  (961 :> <<114>>) @@ (963 :> <<115>>) @@ (962 :> <<115>>) @@ (964 :> <<116>>) @@
  (965 :> <<121>>) @@ (966 :> <<112, 104>>) @@ (967 :> <<99, 104>>) @@ (968 :> <<112, 115>>) @@
  (969 :> <<111>>)

\* asciiMap of approximateToASCII
asciiMap ==
  (225 :> <<97>>) @@ (224 :> <<97>>) @@ (226 :> <<97>>) @@ (227 :> <<97>>) @@
  (228 :> <<97>>) @@ (229 :> <<97>>) @@ (257 :> <<97>>) @@ (233 :> <<101>>) @@
  (232 :> <<101>>) @@ (234 :> <<101>>) @@ (235 :> <<101>>) @@ (275 :> <<101>>) @@
  (237 :> <<105>>) @@ (236 :> <<105>>) @@ (238 :> <<105>>) @@ (239 :> <<105>>) @@
  (299 :> <<105>>) @@ (243 :> <<111>>) @@ (242 :> <<111>>) @@ (244 :> <<111>>) @@
  (245 :> <<111>>) @@ (246 :> <<111>>) @@ (248 :> <<111>>) @@ (333 :> <<111>>) @@
  (250 :> <<117>>) @@ (249 :> <<117>>) @@ (251 :> <<117>>) @@ (252 :> <<117>>) @@
  (363 :> <<117>>) @@ (193 :> <<65>>) @@ (192 :> <<65>>) @@ (194 :> <<65>>) @@
  (195 :> <<65>>) @@ (196 :> <<65>>) @@ (197 :> <<65>>) @@ (256 :> <<65>>) @@
  (201 :> <<69>>) @@ (200 :> <<69>>) @@ (202 :> <<69>>) @@ (203 :> <<69>>) @@
  (274 :> <<69>>) @@ (205 :> <<73>>) @@ (204 :> <<73>>) @@ (206 :> <<73>>) @@
  (207 :> <<73>>) @@ (298 :> <<73>>) @@ (211 :> <<79>>) @@ (210 :> <<79>>) @@
  (212 :> <<79>>) @@ (213 :> <<79>>) @@ (214 :> <<79>>) @@ (216 :> <<79>>) @@
  (332 :> <<79>>) @@ (218 :> <<85>>) @@ (217 :> <<85>>) @@ (219 :> <<85>>) @@
  (220 :> <<85>>) @@ (362 :> <<85>>) @@ (231 :> <<99>>) @@ (199 :> <<67>>) @@
  (241 :> <<110>>) @@ (209 :> <<78>>) @@ (223 :> <<115, 115>>) @@ (230 :> <<97, 101>>) @@
  (198 :> <<65, 69>>) @@ (339 :> <<111, 101>>) @@ (338 :> <<79, 69>>)

\* mapping of Engine.transliterateCyrillic
EngineCyrillicMapping ==
  (1040 :> <<65>>) @@ (1041 :> <<66>>) @@ (1042 :> <<86>>) @@ (1043 :> <<71>>) @@
  (1044 :> <<68>>) @@ (1045 :> <<69>>) @@ (1025 :> <<89, 111>>) @@ (1046 :> <<90, 104>>) @@
  (1047 :> <<90>>) @@ (1048 :> <<73>>) @@ (1049 :> <<89>>) @@ (1050 :> <<75>>) @@
  (1051 :> <<76>>) @@ (1052 :> <<77>>) @@ (1053 :> <<78>>) @@ (1054 :> <<79>>) @@
  (1055 :> <<80>>) @@ (1056 :> <<82>>) @@ (1057 :> <<83>>) @@ (1058 :> <<84>>) @@
  (1059 :> <<85>>) @@ (1060 :> <<70>>) @@ (1061 :> <<75, 104>>) @@ (1062 :> <<84, 115>>) @@
  (1063 :> <<67, 104>>) @@ (1064 :> <<83, 104>>) @@ (1065 :> <<83, 104, 99, 104>>) @@
  (1066 :> <<>>) @@ (1067 :> <<89>>) @@ (1068 :> <<>>) @@ (1069 :> <<69>>) @@
  (1070 :> <<89, 117>>) @@ (1071 :> <<89, 97>>) @@ (1072 :> <<97>>) @@ (1073 :> <<98>>) @@
  (1074 :> <<118>>) @@ (1075 :> <<103>>) @@ (1076 :> <<100>>) @@ (1077 :> <<101>>) @@
  (1105 :> <<121, 111>>) @@ (1078 :> <<122, 104>>) @@ (1079 :> <<122>>) @@ (1080 :> <<105>>) @@
  (1081 :> <<121>>) @@ (1082 :> <<107>>) @@ (1083 :> <<108>>) @@ (1084 :> <<109>>) @@
  (1085 :> <<110>>) @@ (1086 :> <<111>>) @@ (1087 :> <<112>>) @@ (1088 :> <<114>>) @@
  (1089 :> <<115>>) @@ (1090 :> <<116>>) @@ (1091 :> <<117>>) @@ (1092 :> <<102>>) @@
  (1093 :> <<107, 104>>) @@ (1094 :> <<116, 115>>) @@ (1095 :> <<99, 104>>) @@
  (1096 :> <<115, 104>>) @@ (1097 :> <<115, 104, 99, 104>>) @@ (1098 :> <<>>) @@
  (1099 :> <<121>>) @@ (1100 :> <<>>) @@ (1101 :> <<101>>) @@ (1102 :> <<121, 117>>) @@
  (1103 :> <<121, 97>>)

\* mapping of Engine.transliterateChinese
EngineChineseMapping ==
  (19968 :> <<89, 105>>) @@ (20108 :> <<69, 114>>) @@ (19977 :> <<83, 97, 110>>) @@
  (22235 :> <<83, 105>>) @@ (20116 :> <<87, 117>>) @@ (20845 :> <<76, 105, 117>>) @@
  (19971 :> <<81, 105>>) @@ (20843 :> <<66, 97>>) @@ (20061 :> <<74, 105, 117>>) @@
  (21313 :> <<83, 104, 105>>) @@ (26446 :> <<76, 105>>) @@ (29579 :> <<87, 97, 110, 103>>) @@
  (24352 :> <<90, 104, 97, 110, 103>>) @@ (21016 :> <<76, 105, 117>>) @@
  (38472 :> <<67, 104, 101, 110>>) @@ (26472 :> <<89, 97, 110, 103>>) @@
  (36213 :> <<90, 104, 97, 111>>) @@ (40644 :> <<72, 117, 97, 110, 103>>) @@
  (21608 :> <<90, 104, 111, 117>>) @@ (21556 :> <<87, 117>>) @@ (24464 :> <<88, 117>>) @@
  (23385 :> <<83, 117, 110>>) @@ (32993 :> <<72, 117>>) @@ (26417 :> <<90, 104, 117>>) @@
  (39640 :> <<71, 97, 111>>) @@ (26519 :> <<76, 105, 110>>) @@ (20309 :> <<72, 101>>) @@
  (37101 :> <<71, 117, 111>>) @@ (39532 :> <<77, 97>>) @@ (32599 :> <<76, 117, 111>>) @@
  (26753 :> <<76, 105, 97, 110, 103>>) @@ (23435 :> <<83, 111, 110, 103>>) @@
  (37073 :> <<90, 104, 101, 110, 103>>) @@ (35874 :> <<88, 105, 101>>) @@
  (38889 :> <<72, 97, 110>>) @@ (21776 :> <<84, 97, 110, 103>>) @@
  (20911 :> <<70, 101, 110, 103>>) @@ (20110 :> <<89, 117>>) @@
  (33891 :> <<68, 111, 110, 103>>) @@ (33831 :> <<88, 105, 97, 111>>) @@
  (31243 :> <<67, 104, 101, 110, 103>>) @@ (26361 :> <<67, 97, 111>>) @@
  (34945 :> <<89, 117, 97, 110>>) @@ (37011 :> <<68, 101, 110, 103>>) @@
  (35768 :> <<88, 117>>) @@ (20613 :> <<70, 117>>) @@ (27784 :> <<83, 104, 101, 110>>) @@
  (26366 :> <<90, 101, 110, 103>>) @@ (24429 :> <<80, 101, 110, 103>>) @@
  (21525 :> <<76, 117>>) @@ (23567 :> <<88, 105, 97, 111>>) @@ (22823 :> <<68, 97>>) @@
  (20013 :> <<90, 104, 111, 110, 103>>) @@ (25991 :> <<87, 101, 110>>) @@
  (26126 :> <<77, 105, 110, 103>>) @@ (21326 :> <<72, 117, 97>>) @@
  (24314 :> <<74, 105, 97, 110>>) @@ (22269 :> <<71, 117, 111>>) @@
  (27665 :> <<77, 105, 110>>) @@ (20255 :> <<87, 101, 105>>) @@
  (40845 :> <<76, 111, 110, 103>>) @@ (40857 :> <<76, 111, 110, 103>>) @@
  (20964 :> <<70, 101, 110, 103>>) @@ (40179 :> <<70, 101, 110, 103>>) @@
  (29577 :> <<89, 117>>) @@ (37329 :> <<74, 105, 110>>) @@ (26149 :> <<67, 104, 117, 110>>) @@
  (32418 :> <<72, 111, 110, 103>>) @@ (20891 :> <<74, 117, 110>>) @@
  (24378 :> <<81, 105, 97, 110, 103>>) @@ (20113 :> <<89, 117, 110>>) @@
  (24179 :> <<80, 105, 110, 103>>) @@ (24535 :> <<90, 104, 105>>) @@
  (21018 :> <<71, 97, 110, 103>>) @@ (21191 :> <<89, 111, 110, 103>>) @@
  (30922 :> <<76, 101, 105>>) @@ (23068 :> <<78, 97>>) @@ (38745 :> <<74, 105, 110, 103>>) @@
  (20029 :> <<76, 105>>) @@ (25935 :> <<77, 105, 110>>) @@ (31168 :> <<88, 105, 117>>) @@
  (33521 :> <<89, 105, 110, 103>>) @@ (33459 :> <<70, 97, 110, 103>>) @@
  (29141 :> <<89, 97, 110>>) @@ (38634 :> <<88, 117, 101>>) @@ (29748 :> <<81, 105, 110>>) @@
  (26757 :> <<77, 101, 105>>) @@ (33673 :> <<76, 105>>) @@ (20848 :> <<76, 97, 110>>) @@
  (32736 :> <<67, 117, 105>>) @@ (20320 :> <<110, 105>>) @@ (22909 :> <<104, 97, 111>>) @@
  (26159 :> <<115, 104, 105>>) @@ (30340 :> <<100, 101>>) @@ (25105 :> <<119, 111>>) @@
  (20182 :> <<116, 97>>) @@ (22905 :> <<116, 97>>) @@ (20204 :> <<109, 101, 110>>) @@
  (26377 :> <<121, 111, 117>>) @@ (22312 :> <<122, 97, 105>>) @@ (20102 :> <<108, 101>>) @@
  (19981 :> <<98, 117>>) @@ (23601 :> <<106, 105, 117>>) @@ (20154 :> <<114, 101, 110>>) @@
  (37117 :> <<100, 111, 117>>) @@ (19996 :> <<68, 111, 110, 103>>) @@
  (21335 :> <<78, 97, 110>>) @@ (35199 :> <<88, 105>>) @@ (21271 :> <<66, 101, 105>>) @@
  (19978 :> <<83, 104, 97, 110, 103>>) @@ (19979 :> <<88, 105, 97>>) @@
  (24038 :> <<90, 117, 111>>) @@ (21491 :> <<89, 111, 117>>) @@
  (21069 :> <<81, 105, 97, 110>>) @@ (21518 :> <<72, 111, 117>>) @@
  (26032 :> <<88, 105, 110>>) @@ (32769 :> <<76, 97, 111>>) @@
  (38271 :> <<67, 104, 97, 110, 103>>) @@ (30701 :> <<68, 117, 97, 110>>) @@
  (20302 :> <<68, 105>>) @@ (24555 :> <<75, 117, 97, 105>>) @@ (24930 :> <<77, 97, 110>>) @@
  (26089 :> <<90, 97, 111>>) @@ (26202 :> <<87, 97, 110>>)

\* mapping of Engine.transliterateArabic
EngineArabicMapping ==
  (1575 :> <<97>>) @@ (1576 :> <<98>>) @@ (1578 :> <<116>>) @@ (1579 :> <<116, 104>>) @@
  (1580 :> <<106>>) @@ (1581 :> <<104>>) @@ (1582 :> <<107, 104>>) @@ (1583 :> <<100>>) @@
  (1584 :> <<100, 104>>) @@ (1585 :> <<114>>) @@ (1586 :> <<122>>) @@ (1587 :> <<115>>) @@
  (1588 :> <<115, 104>>) @@ (1589 :> <<115>>) @@ (1590 :> <<100>>) @@ (1591 :> <<116>>) @@
  (1592 :> <<122>>) @@ (1593 :> <<39>>) @@ (1594 :> <<103, 104>>) @@ (1601 :> <<102>>) @@
  (1602 :> <<113>>) @@ (1603 :> <<107>>) @@ (1604 :> <<108>>) @@ (1605 :> <<109>>) @@
  (1606 :> <<110>>) @@ (1607 :> <<104>>) @@ (1608 :> <<119>>) @@ (1610 :> <<121>>) @@
  (1569 :> <<39>>) @@ (1570 :> <<97, 97>>) @@ (1571 :> <<97>>) @@ (1573 :> <<105>>) @@
  (1572 :> <<117>>) @@ (1574 :> <<105>>) @@ (1577 :> <<104>>) @@ (1609 :> <<97>>)

\* mapping of Engine.transliterateGreek
EngineGreekMapping ==
  (913 :> <<65>>) @@ (914 :> <<66>>) @@ (915 :> <<71>>) @@ (916 :> <<68>>) @@
  (917 :> <<69>>) @@ (918 :> <<90>>) @@ (919 :> <<72>>) @@ (920 :> <<84, 104>>) @@
  (921 :> <<73>>) @@ (922 :> <<75>>) @@ (923 :> <<76>>) @@ (924 :> <<77>>) @@
  (925 :> <<78>>) @@ (926 :> <<88>>) @@ (927 :> <<79>>) @@ (928 :> <<80>>) @@
  (929 :> <<82>>) @@ (931 :> <<83>>) @@ (932 :> <<84>>) @@ (933 :> <<89>>) @@
  (934 :> <<80, 104>>) @@ (935 :> <<67, 104>>) @@ (936 :> <<80, 115>>) @@ (937 :> <<79>>) @@
  (945 :> <<97>>) @@ (946 :> <<98>>) @@ (947 :> <<103>>) @@ (948 :> <<100>>) @@
  (949 :> <<101>>) @@ (950 :> <<122>>) @@ (951 :> <<104>>) @@ (952 :> <<116, 104>>) @@
  (953 :> <<105>>) @@ (954 :> <<107>>) @@ (955 :> <<108>>) @@ (956 :> <<109>>) @@
  (957 :> <<110>>) @@ (958 :> <<120>>) @@ (959 :> <<111>>) @@ (960 :> <<112>>) @@
  (961 :> <<114>>) @@ (963 :> <<115>>) @@ (962 :> <<115>>) @@ (964 :> <<116>>) @@
  (965 :> <<121>>) @@ (966 :> <<112, 104>>) @@ (967 :> <<99, 104>>) @@ (968 :> <<112, 115>>) @@
  (969 :> <<111>>)

\* hiragana of Engine.transliterateJapanese
EngineHiragana ==
  (12354 :> <<97>>) @@ (12356 :> <<105>>) @@ (12358 :> <<117>>) @@ (12360 :> <<101>>) @@
  (12362 :> <<111>>) @@ (12363 :> <<107, 97>>) @@ (12365 :> <<107, 105>>) @@
  (12367 :> <<107, 117>>) @@ (12369 :> <<107, 101>>) @@ (12371 :> <<107, 111>>) @@
  (12364 :> <<103, 97>>) @@ (12366 :> <<103, 105>>) @@ (12368 :> <<103, 117>>) @@
  (12370 :> <<103, 101>>) @@ (12372 :> <<103, 111>>) @@ (12373 :> <<115, 97>>) @@
  (12375 :> <<115, 104, 105>>) @@ (12377 :> <<115, 117>>) @@ (12379 :> <<115, 101>>) @@
  (12381 :> <<115, 111>>) @@ (12374 :> <<122, 97>>) @@ (12376 :> <<106, 105>>) @@
  (12378 :> <<122, 117>>) @@ (12380 :> <<122, 101>>) @@ (12382 :> <<122, 111>>) @@
  (12383 :> <<116, 97>>) @@ (12385 :> <<99, 104, 105>>) @@ (12388 :> <<116, 115, 117>>) @@
  (12390 :> <<116, 101>>) @@ (12392 :> <<116, 111>>) @@ (12384 :> <<100, 97>>) @@
  (12386 :> <<106, 105>>) @@ (12389 :> <<122, 117>>) @@ (12391 :> <<100, 101>>) @@
  (12393 :> <<100, 111>>) @@ (12394 :> <<110, 97>>) @@ (12395 :> <<110, 105>>) @@
  (12396 :> <<110, 117>>) @@ (12397 :> <<110, 101>>) @@ (12398 :> <<110, 111>>) @@
  (12399 :> <<104, 97>>) @@ (12402 :> <<104, 105>>) @@ (12405 :> <<102, 117>>) @@
  (12408 :> <<104, 101>>) @@ (12411 :> <<104, 111>>) @@ (12400 :> <<98, 97>>) @@
  (12403 :> <<98, 105>>) @@ (12406 :> <<98, 117>>) @@ (12409 :> <<98, 101>>) @@
  (12412 :> <<98, 111>>) @@ (12401 :> <<112, 97>>) @@ (12404 :> <<112, 105>>) @@
  (12407 :> <<112, 117>>) @@ (12410 :> <<112, 101>>) @@ (12413 :> <<112, 111>>) @@
  (12414 :> <<109, 97>>) @@ (12415 :> <<109, 105>>) @@ (12416 :> <<109, 117>>) @@
  (12417 :> <<109, 101>>) @@ (12418 :> <<109, 111>>) @@ (12420 :> <<121, 97>>) @@
  (12422 :> <<121, 117>>) @@ (12424 :> <<121, 111>>) @@ (12425 :> <<114, 97>>) @@
  (12426 :> <<114, 105>>) @@ (12427 :> <<114, 117>>) @@ (12428 :> <<114, 101>>) @@
  (12429 :> <<114, 111>>) @@ (12431 :> <<119, 97>>) @@ (12434 :> <<119, 111>>) @@
  (12435 :> <<110>>)

\* mapping of Engine.transliterateHebrew
EngineHebrewMapping ==
  (1488 :> <<39>>) @@ (1489 :> <<98>>) @@ (1490 :> <<103>>) @@ (1491 :> <<100>>) @@
  (1492 :> <<104>>) @@ (1493 :> <<118>>) @@ (1494 :> <<122>>) @@ (1495 :> <<99, 104>>) @@
  (1496 :> <<116>>) @@ (1497 :> <<121>>) @@ (1499 :> <<107, 104>>) @@ (1500 :> <<108>>) @@
  (1502 :> <<109>>) @@ (1504 :> <<110>>) @@ (1505 :> <<115>>) @@ (1506 :> <<39>>) @@
  (1508 :> <<112>>) @@ (1510 :> <<116, 115>>) @@ (1511 :> <<113>>) @@ (1512 :> <<114>>) @@
  (1513 :> <<115, 104>>) @@ (1514 :> <<116>>)

\* mapping of Engine.transliterateThai
EngineThaiMapping ==
  (3585 :> <<107>>) @@ (3586 :> <<107, 104>>) @@ (3588 :> <<107, 104>>) @@
  (3591 :> <<110, 103>>) @@ (3592 :> <<106>>) @@ (3593 :> <<99, 104>>) @@
  (3594 :> <<99, 104>>) @@ (3595 :> <<115>>) @@ (3597 :> <<121>>) @@ (3604 :> <<100>>) @@
  (3605 :> <<116>>) @@ (3606 :> <<116, 104>>) @@ (3607 :> <<116, 104>>) @@ (3609 :> <<110>>) @@
  (3610 :> <<98>>) @@ (3611 :> <<112>>) @@ (3612 :> <<112, 104>>) @@ (3613 :> <<102>>) @@
  (3614 :> <<112, 104>>) @@ (3615 :> <<102>>) @@ (3616 :> <<112, 104>>) @@ (3617 :> <<109>>) @@
  (3618 :> <<121>>) @@ (3619 :> <<114>>) @@ (3621 :> <<108>>) @@ (3623 :> <<119>>) @@
  (3624 :> <<115>>) @@ (3625 :> <<115>>) @@ (3626 :> <<115>>) @@ (3627 :> <<104>>) @@
  (3629 :> <<39>>) @@ (3630 :> <<104>>) @@ (3634 :> <<97>>) @@ (3636 :> <<105>>) @@
  (3637 :> <<105>>) @@ (3638 :> <<117, 101>>) @@ (3639 :> <<117, 101>>) @@ (3640 :> <<117>>) @@
  (3641 :> <<117>>) @@ (3648 :> <<101>>) @@ (3649 :> <<97, 101>>) @@ (3650 :> <<111>>) @@
  (3651 :> <<97, 105>>) @@ (3652 :> <<97, 105>>)

\* approximations of Engine.approximateToASCII
EngineApproximations ==
  (225 :> <<97>>) @@ (224 :> <<97>>) @@ (226 :> <<97>>) @@ (227 :> <<97>>) @@
  (228 :> <<97>>) @@ (229 :> <<97>>) @@ (233 :> <<101>>) @@ (232 :> <<101>>) @@
  (234 :> <<101>>) @@ (235 :> <<101>>) @@ (237 :> <<105>>) @@ (236 :> <<105>>) @@
  (238 :> <<105>>) @@ (239 :> <<105>>) @@ (243 :> <<111>>) @@ (242 :> <<111>>) @@
  (244 :> <<111>>) @@ (245 :> <<111>>) @@ (246 :> <<111>>) @@ (248 :> <<111>>) @@
  (250 :> <<117>>) @@ (249 :> <<117>>) @@ (251 :> <<117>>) @@ (252 :> <<117>>) @@
  (253 :> <<121>>) @@ (7923 :> <<121>>) @@ (375 :> <<121>>) @@ (255 :> <<121>>) @@
  (231 :> <<99>>) @@ (241 :> <<110>>) @@ (223 :> <<115, 115>>)

\* a map lookup that yields "" for a missing key
Lookup(map, r) == IF r \in DOMAIN map THEN map[r] ELSE <<>>

-----------------------------------------------------------------------------
(* The service: validation *)

\* isValidLocale
isValidLocale(locale) ==
  LET hyphens == {i \in 1..Len(locale) : locale[i] = 45}
      nparts  == Cardinality(hyphens) + 1
      cut     == IF hyphens = {} THEN Len(locale) + 1
                 ELSE CHOOSE i \in hyphens : \A j \in hyphens : i <= j
      lang    == Runes(SubSeq(locale, 1, cut - 1))
      country == Runes(SubSeq(locale, cut + 1, Len(locale)))
  IN  /\ locale # <<>>
      /\ nparts <= 2
      /\ ByteLen(SubSeq(locale, 1, cut - 1)) \in 2..3
      /\ \A i \in 1..Len(lang) : lang[i] \in 97..122
      /\ nparts = 2 =>
           /\ ByteLen(SubSeq(locale, cut + 1, Len(locale))) = 2
           /\ \A i \in 1..Len(country) : country[i] \in 65..90

\* validScripts of validateTransliterationRequest
validScripts ==
  {"latin", "ascii", "cyrillic", "chinese", "arabic", "greek",
   "vietnamese", "indonesian", "malayalam"}

\* validateTransliterationRequest without its locale check
validateTransliterationRequest_NoLocaleCheck(req) ==
  IF req = Nil THEN "request cannot be nil"
  ELSE LET r == Deref(req) IN
    IF TrimSpaceIsEmpty(r.Text) THEN "text cannot be empty"
    ELSE IF LongerThan(r.Text, MaxTextBytes) THEN "text too long (maximum 10,000 characters)"
    ELSE IF ~ValidString(r.Text) THEN "text contains invalid UTF-8 sequences"
    ELSE IF r.OutputScript = "" THEN "output_script is required"
    ELSE IF r.InputScript # "" /\ r.InputScript \notin validScripts
      THEN "unsupported input script"
    ELSE IF r.OutputScript \notin validScripts THEN "unsupported output script"
    ELSE NoErr

\* validateTransliterationRequest: the error it returns, NoErr for none
validateTransliterationRequest(req) ==
  IF req = Nil THEN "request cannot be nil"
  ELSE LET r == Deref(req) IN
    IF TrimSpaceIsEmpty(r.Text) THEN "text cannot be empty"
    ELSE IF LongerThan(r.Text, MaxTextBytes) THEN "text too long (maximum 10,000 characters)"
    ELSE IF ~ValidString(r.Text) THEN "text contains invalid UTF-8 sequences"
    ELSE IF r.OutputScript = "" THEN "output_script is required"
    ELSE IF r.InputScript # "" /\ r.InputScript \notin validScripts
      THEN "unsupported input script"
    ELSE IF r.OutputScript \notin validScripts THEN "unsupported output script"
    ELSE IF r.InputLocale # Nil /\ ~isValidLocale(Deref(r.InputLocale))
      THEN "invalid locale format"
    ELSE NoErr

\* validFeedbackTypes of validateFeedbackRequest
validFeedbackTypes == {"correction", "alternative", "preferred"}

\* validateFeedbackRequest without its feedback_type check
validateFeedbackRequest_NoTypeCheck(req) ==
  IF req = Nil THEN "feedback request cannot be nil"
  ELSE LET r == Deref(req) IN
    IF TrimSpaceIsEmpty(r.SuggestedOutput) THEN "suggested_output cannot be empty"
    ELSE IF LongerThan(r.SuggestedOutput, MaxTextBytes) THEN "suggested_output too long"
    ELSE NoErr

\* validateFeedbackRequest: the error it returns, NoErr for none
validateFeedbackRequest(req) ==
  IF req = Nil THEN "feedback request cannot be nil"
  ELSE LET r == Deref(req) IN
    IF TrimSpaceIsEmpty(r.SuggestedOutput) THEN "suggested_output cannot be empty"
    ELSE IF LongerThan(r.SuggestedOutput, MaxTextBytes) THEN "suggested_output too long"
    ELSE IF r.FeedbackType \notin validFeedbackTypes THEN "invalid feedback_type"
    ELSE NoErr

\* supportedPairs of isSupportedScriptPair: input script |-> its targets
supportedPairs ==
  [s \in {"latin", "ascii", "cyrillic", "chinese", "arabic", "greek",
          "vietnamese", "indonesian", "malayalam"} |-> {"latin", "ascii"}]

\* isSupportedScriptPair looking at the source script only
isSupportedScriptPair_AnyTarget(inputScript, outputScript) ==
  inputScript \in DOMAIN supportedPairs

\* isSupportedScriptPair
isSupportedScriptPair(inputScript, outputScript) ==
  IF inputScript \in DOMAIN supportedPairs
    THEN outputScript \in supportedPairs[inputScript]
    ELSE FALSE

\* the hexadecimal digits, lower case for upper case
LowerHex(c) == IF c \in 65..70 THEN c + 32 ELSE c

\* isValidUUID
isValidUUID(uuid) ==
  LET rs == Runes(uuid)
  IN  /\ ByteLen(uuid) = UuidLen
      /\ \A i \in {9, 14, 19, 24} : uuid[i] = 45
      /\ \A i \in (1..Len(rs)) \ {9, 14, 19, 24} :
           rs[i] \in 48..57 \/ rs[i] \in 97..102 \/ rs[i] \in 65..70

-----------------------------------------------------------------------------
(* The service: script detection *)

\* the switch of detectScript: the bucket a letter is counted in
detectScriptBucket(r) ==
  IF r >= 1024 /\ r <= 1279 THEN "cyrillic"
  ELSE IF r >= 19968 /\ r <= 40959 THEN "chinese"
  ELSE IF r >= 1536 /\ r <= 1791 THEN "arabic"
  ELSE IF r >= 880 /\ r <= 1023 THEN "greek"
  ELSE IF (r >= 65 /\ r <= 90) \/ (r >= 97 /\ r <= 122) THEN "latin"
  ELSE IF r >= 128 /\ r <= 591 THEN "latin"
  ELSE "unknown"

\* detectScript.  At most one bucket holds more than half of the letters, so
\* the order in which the loop visits the counts does not matter.
detectScript(text) ==
  LET rs         == Runes(text)
      letters    == {i \in 1..Len(rs) : IsLetter(rs[i])}
      count(s)   == Cardinality({i \in letters : detectScriptBucket(rs[i]) = s})
      totalChars == Cardinality(letters)
      buckets    == {"cyrillic", "chinese", "arabic", "greek", "latin", "unknown"}
      major      == {s \in buckets : count(s) > 0 /\ 2 * count(s) > totalChars}
      maxScript  == IF major = {} THEN "unknown" ELSE CHOOSE s \in major : TRUE
  IN  IF text = <<>> THEN "unknown"
      ELSE IF totalChars = 0 THEN "unknown"
      ELSE IF maxScript = "unknown" /\ count("latin") > 0 THEN "latin"
      ELSE maxScript

-----------------------------------------------------------------------------
(* The service: character transliteration *)

\* the rows of character_mappings the query of getCharacterMapping selects
MappingRows(sourceChar, sourceScript, targetScript, locale) ==
  {m \in character_mappings :
     /\ m.source_char = sourceChar
     /\ m.source_script = sourceScript
     /\ m.target_script = targetScript
     /\ (locale = Nil \/ m.locale = locale \/ m.locale = Nil)}

\* ORDER BY CASE WHEN locale = $4 THEN 1 ELSE 2 END, frequency_weight DESC
MappingBefore(a, b, locale) ==
  LET rank(m) == IF locale # Nil /\ m.locale = locale THEN 1 ELSE 2
  IN  \/ rank(a) < rank(b)
      \/ rank(a) = rank(b) /\ a.frequency_weight >= b.frequency_weight

\* getCharacterMapping: the target of the first row, "" when there is none
\* (sql.ErrNoRows) and "" when the query ends in another error (dbFails)
getCharacterMapping(dbFails, sourceChar, sourceScript, targetScript, locale) ==
  LET rows == MappingRows(sourceChar, sourceScript, targetScript, locale)
  IN  IF dbFails THEN <<>>
      ELSE IF rows = {} THEN <<>>
      ELSE (CHOOSE m \in rows : \A o \in rows : MappingBefore(m, o, locale)).target_char

\* transliterateCyrillicToLatin
transliterateCyrillicToLatin(r) == Lookup(cyrillicMap, r)

\* transliterateChineseToLatin
transliterateChineseToLatin(r) == Lookup(chineseMap, r)

\* transliterateArabicToLatin
transliterateArabicToLatin(r) == Lookup(arabicMap, r)

\* transliterateGreekToLatin
transliterateGreekToLatin(r) == Lookup(greekMap, r)

\* applyBuiltinRules
applyBuiltinRules(r, inputScript, outputScript) ==
  IF inputScript = "cyrillic" /\ outputScript = "latin"
    THEN transliterateCyrillicToLatin(r)
  ELSE IF inputScript = "chinese" /\ (outputScript = "latin" \/ outputScript = "ascii")
    THEN transliterateChineseToLatin(r)
  ELSE IF inputScript = "arabic" /\ outputScript = "latin"
    THEN transliterateArabicToLatin(r)
  ELSE IF inputScript = "greek" /\ outputScript = "latin"
    THEN transliterateGreekToLatin(r)
  ELSE <<>>

\* approximateToASCII keeping a letter it has no mapping for
approximateToASCII_KeepsUnknownLetter(r) ==
  IF r \in DOMAIN asciiMap THEN asciiMap[r]
  ELSE IF r < 128 THEN <<r>>
  ELSE IF IsLetter(r) THEN <<r>>
  ELSE IF IsDigit(r) THEN <<48>>
  ELSE IF IsSpace(r) THEN <<32>>
  ELSE IF IsPunct(r) THEN <<46>>
  ELSE <<>>

\* approximateToASCII
approximateToASCII(r) ==
  IF r \in DOMAIN asciiMap THEN asciiMap[r]
  ELSE IF r < 128 THEN <<r>>
  ELSE IF IsLetter(r) THEN <<63>>
  ELSE IF IsDigit(r) THEN <<48>>
  ELSE IF IsSpace(r) THEN <<32>>
  ELSE IF IsPunct(r) THEN <<46>>
  ELSE <<>>

\* the body of the loop of performTransliteration: what one rune contributes
performTransliterationRune(dbFails, r, inputScript, outputScript, inputLocale) ==
  LET mapped        == getCharacterMapping(dbFails, <<r>>, inputScript, outputScript, inputLocale)
      builtinMapped == applyBuiltinRules(r, inputScript, outputScript)
  IN  IF mapped # <<>> THEN mapped
      ELSE IF builtinMapped # <<>> THEN builtinMapped
      ELSE IF outputScript = "ascii" THEN approximateToASCII(r)
      ELSE <<r>>

\* performTransliteration
performTransliteration(dbFails, text, inputScript, outputScript, inputLocale) ==
  LET rs == Runes(text)
  IN  Concat([i \in 1..Len(rs) |->
                performTransliterationRune(dbFails, rs[i], inputScript, outputScript, inputLocale)])

\* performTransliterationWithValidation without its check of an empty result
performTransliterationWithValidation_NoEmptyCheck(dbFails, text, inputScript, outputScript, inputLocale) ==
  LET result == performTransliteration(dbFails, text, inputScript, outputScript, inputLocale)
  IN  IF text = <<>> THEN [output |-> <<>>, err |-> "empty input text"]
      ELSE IF ~ValidString(result)
        THEN [output |-> <<>>, err |-> "transliteration produced invalid UTF-8"]
      ELSE [output |-> result, err |-> NoErr]

\* performTransliterationWithValidation: [output, err]
performTransliterationWithValidation(dbFails, text, inputScript, outputScript, inputLocale) ==
  LET result == performTransliteration(dbFails, text, inputScript, outputScript, inputLocale)
  IN  IF text = <<>> THEN [output |-> <<>>, err |-> "empty input text"]
      ELSE IF result = <<>>
        THEN [output |-> <<>>, err |-> "transliteration produced empty result"]
      ELSE IF ~ValidString(result)
        THEN [output |-> <<>>, err |-> "transliteration produced invalid UTF-8"]
      ELSE [output |-> result, err |-> NoErr]

-----------------------------------------------------------------------------
(* The service: confidence, in hundredths as confidence_score DECIMAL(3,2) *)

\* calculateScriptCompatibility
calculateScriptCompatibility(inputScript, outputScript) ==
  IF (inputScript = "latin" /\ outputScript = "ascii")
     \/ (inputScript = "ascii" /\ outputScript = "latin") THEN 30
  ELSE IF inputScript \in {"cyrillic", "greek"} /\ outputScript \in {"latin", "ascii"} THEN 20
  ELSE IF inputScript \in {"chinese", "arabic"} /\ outputScript \in {"latin", "ascii"} THEN 10
  ELSE 0

\* countNonWhitespaceChars
countNonWhitespaceChars(text) ==
  LET rs == Runes(text) IN Cardinality({i \in 1..Len(rs) : ~IsSpace(rs[i])})

\* calculateCharacterCoverage
calculateCharacterCoverage(inputText, outputText) ==
  LET inputChars  == countNonWhitespaceChars(inputText)
      outputChars == countNonWhitespaceChars(outputText)
  IN  IF inputChars = 0 THEN 0
      ELSE IF outputChars = 0 THEN 0 - 20
      ELSE IF 2 * outputChars >= inputChars /\ 2 * outputChars <= 3 * inputChars THEN 10
      ELSE 0

\* calculateConfidence
calculateConfidence(inputText, outputText, inputScript, outputScript) ==
  LET lengthBonus ==
        IF /\ 2 * ByteLen(outputText) >= ByteLen(inputText)
           /\ ByteLen(outputText) <= 2 * ByteLen(inputText) THEN 10 ELSE 0
      total == 50 + calculateScriptCompatibility(inputScript, outputScript)
                  + calculateCharacterCoverage(inputText, outputText) + lengthBonus
  IN  IF total > 100 THEN 100 ELSE IF total < 10 THEN 10 ELSE total

-----------------------------------------------------------------------------
(* The service: the database *)

\* gen_random_uuid(): the id of the n-th row, a fresh UUID
Uuid(n) == [i \in 1..UuidLen |-> IF i \in {9, 14, 19, 24} THEN 45
                                 ELSE IF i = UuidLen THEN 48 + n ELSE 48]

\* a uuid parameter as the database reads it: hexadecimal digits in lower case
UuidValue(id) == [i \in 1..Len(id) |-> LowerHex(id[i])]

\* the columns a handler scans from a transliterations row
ResponseOfRow(t) ==
  [ID |-> t.id, InputText |-> t.input_text, OutputText |-> t.output_text,
   InputScript |-> t.input_script, OutputScript |-> t.output_script,
   InputLocale |-> t.input_locale, ConfidenceScore |-> t.confidence_score]

\* ORDER BY usage_count DESC, updated_at DESC
CachedBefore(a, b) ==
  \/ a.usage_count > b.usage_count
  \/ a.usage_count = b.usage_count /\ a.updated_at >= b.updated_at

\* the WHERE clause of getCachedTransliteration: the indexes of the rows it selects
CachedRows(inputText, inputScript, outputScript, inputLocale) ==
  {i \in 1..Len(transliterations) :
     /\ transliterations[i].input_text = inputText
     /\ transliterations[i].input_script = inputScript
     /\ transliterations[i].output_script = outputScript
     /\ (inputLocale = Nil \/ transliterations[i].input_locale = inputLocale)}

\* getCachedTransliteration: a pointer to the first row's response, Nil for sql.ErrNoRows
getCachedTransliteration(inputText, inputScript, outputScript, inputLocale) ==
  LET rows == CachedRows(inputText, inputScript, outputScript, inputLocale)
  IN  IF rows = {} THEN Nil
      ELSE Ptr(ResponseOfRow(transliterations[
             CHOOSE i \in rows :
               \A j \in rows : CachedBefore(transliterations[i], transliterations[j])]))

\* UPDATE transliterations SET usage_count = usage_count + 1, updated_at = NOW()
\* WHERE id = $1
UpdateUsage(id) ==
  [i \in 1..Len(transliterations) |->
     IF transliterations[i].id = id
       THEN [transliterations[i] EXCEPT !.usage_count = @ + 1, !.updated_at = now + 1]
       ELSE transliterations[i]]

\* the INSERT of storeTransliteration with input_text and output_text exchanged
StoredRow_TextsExchanged(inputText, outputText, inputScript, outputScript, inputLocale, confidenceScore) ==
  [id |-> Uuid(Len(transliterations) + 1),
   input_text |-> outputText, output_text |-> inputText,
   input_script |-> inputScript, output_script |-> outputScript,
   input_locale |-> inputLocale, confidence_score |-> confidenceScore,
   usage_count |-> 1, updated_at |-> now + 1]

\* the row storeTransliteration inserts: id, usage_count and updated_at by default
StoredRow(inputText, outputText, inputScript, outputScript, inputLocale, confidenceScore) ==
  [id |-> Uuid(Len(transliterations) + 1),
   input_text |-> inputText, output_text |-> outputText,
   input_script |-> inputScript, output_script |-> outputScript,
   input_locale |-> inputLocale, confidence_score |-> confidenceScore,
   usage_count |-> 1, updated_at |-> now + 1]

\* storeTransliteration: the response it builds from its arguments and the new id
storeTransliteration(inputText, outputText, inputScript, outputScript, inputLocale, confidenceScore) ==
  [ID |-> Uuid(Len(transliterations) + 1),
   InputText |-> inputText, OutputText |-> outputText,
   InputScript |-> inputScript, OutputScript |-> outputScript,
   InputLocale |-> inputLocale, ConfidenceScore |-> confidenceScore]

\* the query of GetTransliteration: a pointer to the row's response, Nil for sql.ErrNoRows
SelectById(id) ==
  LET rows == {i \in 1..Len(transliterations) : transliterations[i].id = UuidValue(id)}
  IN  IF rows = {} THEN Nil
      ELSE Ptr(ResponseOfRow(transliterations[CHOOSE i \in rows : TRUE]))

-----------------------------------------------------------------------------
(* The service: the API handlers.  Each handler is given as the result it    *)
(* returns together with the tables it leaves.  The Name and Gender of a     *)
(* response are computed from its texts and script and are not stored.       *)

\* the input script Transliterate works with: the request's, or the detected one
ResolvedScript(r) == IF r.InputScript = "" THEN detectScript(r.Text) ELSE r.InputScript

\* Transliterate
TransliterateResult(req) ==
  LET unchanged(err) == [err |-> err, resp |-> Nil, cached |-> FALSE,
                         table |-> transliterations, clock |-> now]
      invalid == validateTransliterationRequest(req)
  IN  IF invalid # NoErr THEN unchanged("invalid request")
      ELSE
        LET r           == Deref(req)
            inputScript == ResolvedScript(r)
            cached      == getCachedTransliteration(r.Text, inputScript, r.OutputScript,
                                                    r.InputLocale)
            \* the database of the service answers every query of a request
            done        == performTransliterationWithValidation(
                             FALSE, r.Text, inputScript, r.OutputScript, r.InputLocale)
            confidenceScore ==
              calculateConfidence(r.Text, done.output, inputScript, r.OutputScript)
        IN  IF r.InputScript = "" /\ inputScript = "unknown"
              THEN unchanged("unable to detect input script")
            ELSE IF ~isSupportedScriptPair(inputScript, r.OutputScript)
              THEN unchanged("unsupported script conversion")
            ELSE IF cached # Nil
              THEN [err |-> NoErr, resp |-> cached, cached |-> TRUE,
                    table |-> UpdateUsage(Deref(cached).ID), clock |-> now + 1]
            ELSE IF done.err # NoErr THEN unchanged("transliteration failed")
            ELSE [err |-> NoErr, cached |-> FALSE,
                  resp |-> Ptr(storeTransliteration(r.Text, done.output, inputScript,
                                 r.OutputScript, r.InputLocale, confidenceScore)),
                  table |-> Append(transliterations,
                                   StoredRow(r.Text, done.output, inputScript,
                                     r.OutputScript, r.InputLocale, confidenceScore)),
                  clock |-> now + 1]

\* GetTransliteration: [err, resp]
GetTransliterationResult(id) ==
  IF ~isValidUUID(id)
    THEN [err |-> "invalid transliteration ID format", resp |-> Nil]
  ELSE IF SelectById(id) = Nil
    THEN [err |-> "transliteration not found", resp |-> Nil]
  ELSE [err |-> NoErr, resp |-> SelectById(id)]

\* SubmitFeedback: [err, table]
SubmitFeedbackResult(id, req) ==
  IF validateFeedbackRequest(req) # NoErr
    THEN [err |-> "invalid feedback", table |-> transliteration_feedback]
  ELSE IF GetTransliterationResult(id).err # NoErr
    THEN [err |-> "invalid transliteration ID", table |-> transliteration_feedback]
  ELSE [err |-> NoErr,
        table |-> Append(transliteration_feedback,
                    [transliteration_id |-> UuidValue(id),
                     suggested_output |-> Deref(req).SuggestedOutput,
                     feedback_type |-> Deref(req).FeedbackType,
                     user_context |-> Deref(req).UserContext])]

-----------------------------------------------------------------------------
(* Inputs *)

LocaleRu  == <<114, 117, 45, 82, 85>>      \* "ru-RU"
LocaleBad == <<82, 85>>                    \* "RU"

\* a text of MaxTextBytes + 1 bytes: "xxx...x"
LongText == [i \in 1..(MaxTextBytes + 1) |-> 120]

\* rows the table character_mappings may hold; rows for one character and one
\* pair of scripts carry different weights, so ORDER BY ... LIMIT 1 decides
MappingRow(char, target, sourceScript, targetScript, locale, weight) ==
  [source_char |-> char, target_char |-> target, source_script |-> sourceScript,
   target_script |-> targetScript, locale |-> locale, frequency_weight |-> weight]

RowYaLatin   == MappingRow(<<1103>>, <<226>>, "cyrillic", "latin", Nil, 50)
RowYaLatinRu == MappingRow(<<1103>>, <<105, 97>>, "cyrillic", "latin", Ptr(LocaleRu), 90)
RowYaAscii   == MappingRow(<<1103>>, <<106, 97>>, "cyrillic", "ascii", Nil, 60)
RowHardSign  == MappingRow(<<1098>>, <<>>, "cyrillic", "ascii", Nil, 50)
RowCopyright == MappingRow(<<169>>, <<40, 99, 41>>, "latin", "ascii", Nil, 50)

\* the contents of character_mappings the model starts from
Dictionaries ==
  { {},
    {RowYaLatin, RowHardSign},
    {RowYaLatinRu, RowCopyright},
    {RowYaLatin, RowYaLatinRu, RowYaAscii, RowHardSign, RowCopyright} }

Request(text, inputScript, outputScript, inputLocale) ==
  Ptr([Text |-> text, InputScript |-> inputScript, OutputScript |-> outputScript,
       InputLocale |-> inputLocale])

\* the requests Transliterate is called with
TransliterateRequests ==
  { Request(<<1103>>, "cyrillic", "latin", Nil),            \* "я"
    Request(<<1103>>, "cyrillic", "latin", Ptr(LocaleRu)),
    Request(<<1103>>, "", "latin", Nil),                    \* script to be detected
    Request(<<169>>, "latin", "ascii", Nil),                \* "©"
    Request(<<97>>, "latin", "cyrillic", Nil),              \* no supported pair
    Request(<<49>>, "", "ascii", Nil),                      \* "1": no letter to detect
    Nil,
    Request(<<>>, "latin", "ascii", Nil),
    Request(<<32, 160>>, "latin", "ascii", Nil),            \* white space only
    Request(LongText, "latin", "ascii", Nil),
    Request(<<97, BadByte>>, "latin", "ascii", Nil),
    Request(<<97>>, "latin", "", Nil),
    Request(<<97>>, "klingon", "ascii", Nil),
    Request(<<97>>, "latin", "klingon", Nil),
    Request(<<97>>, "latin", "ascii", Ptr(LocaleBad)),
    Request(<<97>>, "latin", "ascii", Ptr(<<>>)) }

\* the ids GetTransliteration and SubmitFeedback are called with
RequestIds ==
  { Uuid(1), Uuid(2), Uuid(3), Uuid(9),
    <<>>,
    [Uuid(1) EXCEPT ![9] = 48],          \* no hyphen at position 8
    [Uuid(1) EXCEPT ![1] = 103] }        \* "g", not a hexadecimal digit

Feedback(suggestedOutput, feedbackType) ==
  Ptr([TransliterationID |-> Uuid(1), SuggestedOutput |-> suggestedOutput,
       FeedbackType |-> feedbackType, UserContext |-> <<>>])

\* the requests SubmitFeedback is called with
FeedbackRequests ==
  { Feedback(<<121, 97>>, "correction"),                    \* "ya"
    Feedback(<<106, 97>>, "preferred"),                     \* "ja"
    Nil,
    Feedback(<<>>, "correction"),
    Feedback(<<32>>, "alternative"),
    Feedback(LongText, "correction"),
    Feedback(<<121, 97>>, "invalid"),
    Feedback(<<121, 97>>, "") }

\* the calls of SubmitFeedback: each id with a valid request, and each request
\* with the id of the first row
FeedbackCalls ==
  (RequestIds \X {Feedback(<<121, 97>>, "correction")})
    \cup ({Uuid(1)} \X FeedbackRequests)

-----------------------------------------------------------------------------
(* The service as a state machine *)

NoCall == [op |-> "none", req |-> Nil, id |-> <<>>, err |-> NoErr, resp |-> Nil,
           cached |-> FALSE]

Init ==
  /\ transliterations = <<>>
  /\ transliteration_feedback = <<>>
  /\ character_mappings = {}
  /\ now = 0
  /\ call = NoCall
  /\ responses = <<>>
  /\ in = Nil
  /\ out = Nil

\* POST /api/transliterate
Transliterate(req) ==
  LET res == TransliterateResult(req)
  IN  /\ res.cached =>
           \A i \in 1..Len(transliterations) :
             transliterations[i].id = Deref(res.resp).ID
               => transliterations[i].usage_count < MaxUsage
      /\ transliterations' = res.table
      /\ now' = res.clock
      /\ call' = [op |-> "Transliterate", req |-> req, id |-> <<>>, err |-> res.err,
                  resp |-> res.resp, cached |-> res.cached]
      /\ responses' =
           LET pair == [req |-> req, resp |-> res.resp]
           IN  IF res.err = NoErr /\ \A k \in 1..Len(responses) : responses[k] # pair
                 THEN Append(responses, pair)
                 ELSE responses
      /\ UNCHANGED <<transliteration_feedback, character_mappings, in, out>>

\* GET /api/transliterate/:id
GetTransliteration(id) ==
  LET res == GetTransliterationResult(id)
  IN  /\ call' = [op |-> "GetTransliteration", req |-> Nil, id |-> id, err |-> res.err,
                  resp |-> res.resp, cached |-> FALSE]
      /\ UNCHANGED <<transliterations, transliteration_feedback, character_mappings,
                     now, responses, in, out>>

\* POST /api/transliterate/:id/feedback
SubmitFeedback(id, req) ==
  LET res == SubmitFeedbackResult(id, req)
  IN  /\ res.err = NoErr => Len(transliteration_feedback) < MaxFeedback
      /\ transliteration_feedback' = res.table
      /\ call' = [op |-> "SubmitFeedback", req |-> req, id |-> id, err |-> res.err,
                  resp |-> Nil, cached |-> FALSE]
      /\ UNCHANGED <<transliterations, character_mappings, now, responses, in, out>>

Next ==
  \/ \E req \in TransliterateRequests : Transliterate(req)
  \/ \E id \in RequestIds : GetTransliteration(id)
  \/ \E c \in FeedbackCalls : SubmitFeedback(c[1], c[2])

Spec == Init /\ [][Next]_vars

-----------------------------------------------------------------------------
(* Properties of the service *)

\* the requests Transliterate has answered successfully so far
Answered == {responses[k].req : k \in 1..Len(responses)}

\* the first response Transliterate gave to a request
FirstResponse(req) ==
  Deref(responses[CHOOSE k \in 1..Len(responses) :
                    /\ responses[k].req = req
                    /\ \A j \in 1..(k - 1) : responses[j].req # req].resp)

\* C1: once a Transliterate request has succeeded, every later Transliterate
\* request with the same text, input script, output script and locale returns
\* the ID and the output text of that first response and stores no new row.
C1_RepeatReturnsFirstResponse ==
  [][(call'.op = "Transliterate" /\ call'.req \in Answered)
       => /\ call'.err = NoErr
          /\ Deref(call'.resp).ID = FirstResponse(call'.req).ID
          /\ Deref(call'.resp).OutputText = FirstResponse(call'.req).OutputText
          /\ Len(transliterations') = Len(transliterations)]_vars

\* C2: a cache hit returns a row whose text, input script, output script and
\* locale all equal those of the request; a request without a locale is never
\* answered with a row stored under a locale, nor the other way round.
C2_CacheHitEqualsRequestKey ==
  (call.op = "Transliterate" /\ call.cached)
    => LET r == Deref(call.req)
           c == Deref(call.resp)
       IN  /\ c.InputText = r.Text
           /\ c.InputScript = ResolvedScript(r)
           /\ c.OutputScript = r.OutputScript
           /\ c.InputLocale = r.InputLocale

\* the fields C3 compares
SameRecord(a, b) ==
  /\ a.ID = b.ID
  /\ a.InputText = b.InputText
  /\ a.OutputText = b.OutputText
  /\ a.InputScript = b.InputScript
  /\ a.OutputScript = b.OutputScript

\* C3: for every response Transliterate has returned, GetTransliteration of its
\* ID succeeds and returns the same ID, input text, output text, input script
\* and output script, now and after any further calls; and a call of
\* GetTransliteration with such an ID has returned just that.
C3_ReturnedRecordsStayRetrievable ==
  /\ \A k \in 1..Len(responses) :
       LET r == Deref(responses[k].resp)
           g == GetTransliterationResult(r.ID)
       IN  g.err = NoErr /\ SameRecord(Deref(g.resp), r)
  /\ call.op = "GetTransliteration" =>
       \A k \in 1..Len(responses) :
         Deref(responses[k].resp).ID = call.id =>
           call.err = NoErr /\ SameRecord(Deref(call.resp), Deref(responses[k].resp))

\* C3 witness: GetTransliteration returned a row that a cache hit had updated.
C3_Witness ==
  /\ call.op = "GetTransliteration" /\ call.err = NoErr
  /\ \E i \in 1..Len(transliterations) :
       transliterations[i].id = call.id /\ transliterations[i].usage_count > 1

\* the requests C4 calls invalid
C4_InvalidRequest(req) ==
  \/ req = Nil
  \/ TrimSpaceIsEmpty(Deref(req).Text)
  \/ LongerThan(Deref(req).Text, MaxTextBytes)
  \/ Deref(req).OutputScript = ""
  \/ Deref(req).OutputScript \notin validScripts
  \/ Deref(req).InputScript # "" /\ Deref(req).InputScript \notin validScripts
  \/ Deref(req).InputLocale # Nil /\ ~isValidLocale(Deref(Deref(req).InputLocale))

\* C4: Transliterate with an invalid request (nil, empty or white-space text,
\* text of more than 10000 bytes, no output script, an input or output script
\* outside the accepted names, a malformed locale) returns an error and leaves
\* the tables as they were.
C4_InvalidRequestRejected ==
  [][(call'.op = "Transliterate" /\ C4_InvalidRequest(call'.req))
       => /\ call'.err # NoErr
          /\ transliterations' = transliterations
          /\ transliteration_feedback' = transliteration_feedback]_vars

\* C4 witness: an invalid request was rejected while rows were stored.
C4_Witness ==
  /\ call.op = "Transliterate" /\ C4_InvalidRequest(call.req) /\ call.err # NoErr
  /\ Len(transliterations) > 0

\* the pairs C5 calls unsupported, for the request r
C5_UnsupportedPair(r) ==
  \/ r.InputScript = "" /\ detectScript(r.Text) = "unknown"
  \/ r.OutputScript \notin {"latin", "ascii"}
  \/ ResolvedScript(r) \notin {"latin", "ascii", "cyrillic", "chinese", "arabic", "greek",
                               "vietnamese", "indonesian", "malayalam"}

\* C5: Transliterate returns an error and stores nothing whenever the resolved
\* source script (the hint, or the detected script) and the target script are
\* no supported pair: the target is latin or ascii, the source is one of the
\* supported scripts, and a detected script of unknown is an error too.
C5_UnsupportedPairRejected ==
  [][(call'.op = "Transliterate" /\ call'.req # Nil
        /\ C5_UnsupportedPair(Deref(call'.req)))
       => /\ call'.err # NoErr
          /\ transliterations' = transliterations]_vars

\* C5 witness: a valid request for an unsupported pair was rejected while rows
\* were stored.
C5_Witness ==
  /\ call.op = "Transliterate" /\ call.err = "unsupported script conversion"
  /\ Len(transliterations) > 0

\* what C6 asks of every transliteration_feedback row
C6_FeedbackRowsValid ==
  \A k \in 1..Len(transliteration_feedback) :
    LET f == transliteration_feedback[k]
    IN  /\ \E i \in 1..Len(transliterations) :
             transliterations[i].id = f.transliteration_id
        /\ f.suggested_output # <<>>
        /\ f.feedback_type \in {"correction", "alternative", "preferred"}

\* the calls of SubmitFeedback C6 asks to be rejected
C6_Rejected(id, req) ==
  \/ req = Nil
  \/ TrimSpaceIsEmpty(Deref(req).SuggestedOutput)
  \/ Deref(req).FeedbackType \notin {"correction", "alternative", "preferred"}
  \/ ~isValidUUID(id)
  \/ \A i \in 1..Len(transliterations) : transliterations[i].id # id

\* C6: every stored feedback row references an existing transliterations row
\* and has a non-empty suggested output and a feedback type of correction,
\* alternative or preferred; SubmitFeedback with an invalid request, an invalid
\* ID or the ID of no stored row returns an error and stores nothing.
C6_FeedbackValidated ==
  /\ []C6_FeedbackRowsValid
  /\ [][(call'.op = "SubmitFeedback" /\ C6_Rejected(call'.id, call'.req))
          => /\ call'.err # NoErr
             /\ transliteration_feedback' = transliteration_feedback
             /\ transliterations' = transliterations]_vars

\* C6 witness: a feedback row is stored and a later SubmitFeedback was rejected.
C6_Witness ==
  /\ Len(transliteration_feedback) > 0
  /\ call.op = "SubmitFeedback" /\ call.err # NoErr

-----------------------------------------------------------------------------
(* The transliteration engine (package transliteration) *)

\* DefaultConfig
DefaultConfig ==
  [UseDatabase |-> TRUE, FallbackToASCII |-> TRUE, PreserveSpacing |-> TRUE,
   CaseSensitive |-> FALSE]

\* the configurations NewEngine is given in the model
Configs ==
  {[DefaultConfig EXCEPT !.UseDatabase = u, !.FallbackToASCII = f] : u, f \in BOOLEAN}

\* the rows the query of lookupInDatabase selects; its locale is a Go string and
\* never NULL
EngineMappingRows(sourceChar, fromScript, toScript, locale) ==
  {m \in character_mappings :
     /\ m.source_char = sourceChar
     /\ m.source_script = fromScript
     /\ m.target_script = toScript
     /\ (m.locale = Ptr(locale) \/ m.locale = Nil)}

\* lookupInDatabase: the target of the first row, "" for sql.ErrNoRows
lookupInDatabase(sourceChar, fromScript, toScript, locale) ==
  LET rows == EngineMappingRows(sourceChar, fromScript, toScript, locale)
  IN  IF rows = {} THEN <<>>
      ELSE (CHOOSE m \in rows : \A o \in rows : MappingBefore(m, o, Ptr(locale))).target_char

\* transliterateKorean
transliterateKorean(r) == <<>>

\* Engine.applyBuiltinRules
EngineApplyBuiltinRules(r, fromScript, toScript) ==
  IF toScript \notin {"latin", "ascii"} THEN <<>>
  ELSE IF fromScript = "cyrillic" THEN Lookup(EngineCyrillicMapping, r)
  ELSE IF fromScript = "chinese"  THEN Lookup(EngineChineseMapping, r)
  ELSE IF fromScript = "japanese" THEN Lookup(EngineHiragana, r)
  ELSE IF fromScript = "arabic"   THEN Lookup(EngineArabicMapping, r)
  ELSE IF fromScript = "greek"    THEN Lookup(EngineGreekMapping, r)
  ELSE IF fromScript = "korean"   THEN transliterateKorean(r)
  ELSE IF fromScript = "hebrew"   THEN Lookup(EngineHebrewMapping, r)
  ELSE IF fromScript = "thai"     THEN Lookup(EngineThaiMapping, r)
  ELSE <<>>

\* Engine.approximateToASCII without its branch for characters already ASCII
EngineApproximateToASCII_NoAsciiBranch(r) ==
  IF r \in DOMAIN EngineApproximations THEN EngineApproximations[r]
  ELSE <<63>>

\* Engine.approximateToASCII
EngineApproximateToASCII(r) ==
  IF r < 128 THEN <<r>>
  ELSE IF r \in DOMAIN EngineApproximations THEN EngineApproximations[r]
  ELSE <<63>>

\* Engine.transliterateRune giving up on a rune whose query ended in an error
transliterateRune_FailedLookupIsFinal(config, dbFails, r, fromScript, toScript, locale) ==
  LET dbResult      == lookupInDatabase(<<r>>, fromScript, toScript, locale)
      builtinResult == EngineApplyBuiltinRules(r, fromScript, toScript)
  IN  IF config.UseDatabase /\ dbFails
        THEN [Output |-> <<63>>, Confidence |-> 0, Note |-> "lookup failed", Method |-> "error"]
      ELSE IF config.UseDatabase /\ dbResult # <<>>
        THEN [Output |-> dbResult, Confidence |-> 95, Note |-> "", Method |-> "database"]
      ELSE IF builtinResult # <<>>
        THEN [Output |-> builtinResult, Confidence |-> 85, Note |-> "", Method |-> "builtin"]
      ELSE IF config.FallbackToASCII /\ toScript = "ascii"
        THEN [Output |-> EngineApproximateToASCII(r), Confidence |-> 30, Note |-> "",
              Method |-> "fallback"]
      ELSE [Output |-> <<r>>, Confidence |-> 10, Note |-> "Character unchanged",
            Method |-> "unchanged"]

\* Engine.transliterateRune; dbFails says that the query ended in an error other
\* than sql.ErrNoRows, which the caller treats like an empty result.
\* Confidence is in hundredths.
transliterateRune(config, dbFails, r, fromScript, toScript, locale) ==
  LET dbResult      == IF dbFails THEN <<>>
                       ELSE lookupInDatabase(<<r>>, fromScript, toScript, locale)
      builtinResult == EngineApplyBuiltinRules(r, fromScript, toScript)
      asciiResult   == EngineApproximateToASCII(r)
  IN  IF config.UseDatabase /\ dbResult # <<>>
        THEN [Output |-> dbResult, Confidence |-> 95, Note |-> "", Method |-> "database"]
      ELSE IF builtinResult # <<>>
        THEN [Output |-> builtinResult, Confidence |-> 85, Note |-> "", Method |-> "builtin"]
      ELSE IF config.FallbackToASCII /\ toScript = "ascii"
        THEN IF asciiResult = <<63>>
               THEN [Output |-> asciiResult, Confidence |-> 10,
                     Note |-> "Unknown character approximated", Method |-> "fallback"]
               ELSE [Output |-> asciiResult, Confidence |-> 30, Note |-> "",
                     Method |-> "fallback"]
      ELSE [Output |-> <<r>>, Confidence |-> 10, Note |-> "Character unchanged",
            Method |-> "unchanged"]

\* the sum of a sequence of naturals
RECURSIVE SumSeq(_)
SumSeq(s) == IF s = <<>> THEN 0 ELSE Head(s) + SumSeq(Tail(s))

\* Engine.Transliterate: the error, and the Result when there is none. The
\* confidence confidenceSum / charCount is kept as the pair of the two.
EngineTransliterate(config, dbFails, text, fromScript, toScript, locale) ==
  LET rs    == Runes(text)
      chars == [i \in 1..Len(rs) |->
                  transliterateRune(config, dbFails, rs[i], fromScript, toScript, locale)]
      notes == SelectSeq([i \in 1..Len(rs) |-> chars[i].Note], LAMBDA n : n # "")
  IN  IF ~ValidString(text)
        THEN [err |-> "invalid UTF-8 input", result |-> Nil]
      ELSE IF text = <<>>
        THEN [err |-> NoErr,
              result |-> Ptr([Output |-> <<>>, Confidence |-> <<100, 100>>,
                              Notes |-> <<>>, Method |-> "empty"])]
      ELSE [err |-> NoErr,
            result |-> Ptr([Output |-> Concat([i \in 1..Len(rs) |-> chars[i].Output]),
                            Confidence |-> <<SumSeq([i \in 1..Len(rs) |-> chars[i].Confidence]),
                                             100 * Len(rs)>>,
                            Notes |-> notes,
                            Method |-> IF Len(notes) = 0 THEN "builtin" ELSE "mixed"])]

-----------------------------------------------------------------------------
(* The transliteration functions on their own: the arguments are drawn in the
   initial state, an action calls one function and records what it returned *)

\* the characters the texts are made of:
\* " " "A" "a" "©" "ß" "ъ" "я" "你" and a byte that is no UTF-8
TextAlphabet == {32, 65, 97, 169, 223, 1098, 1103, 20320, BadByte}

Texts == UNION {[1..n -> TextAlphabet] : n \in 0..MaxLen}

\* the arguments of one call
TransliterationInputs ==
  [text : Texts,
   inputScript : {"ascii", "latin", "cyrillic", "chinese"},
   outputScript : {"latin", "ascii"},
   inputLocale : {Nil, Ptr(LocaleRu)}]

InitTransliteration ==
  /\ transliterations = <<>>
  /\ transliteration_feedback = <<>>
  /\ character_mappings \in Dictionaries
  /\ now = 0
  /\ call = NoCall
  /\ responses = <<>>
  /\ in \in TransliterationInputs
  /\ out = Nil

\* the locale argument of the engine is a string, "" when there is none
LocaleString(inputLocale) == IF inputLocale = Nil THEN <<>> ELSE Deref(inputLocale)

CallPerformTransliteration(dbFails) ==
  /\ out' = [op |-> "performTransliteration", config |-> Nil, dbFails |-> dbFails,
             output |-> performTransliteration(dbFails, in.text, in.inputScript, in.outputScript,
                                               in.inputLocale),
             err |-> NoErr]
  /\ UNCHANGED <<transliterations, transliteration_feedback, character_mappings, now,
                 call, responses, in>>

CallPerformTransliterationWithValidation(dbFails) ==
  /\ LET res == performTransliterationWithValidation(dbFails, in.text, in.inputScript,
                                                     in.outputScript, in.inputLocale)
     IN  out' = [op |-> "performTransliterationWithValidation", config |-> Nil,
                 dbFails |-> dbFails,
                 output |-> res.output, err |-> res.err]
  /\ UNCHANGED <<transliterations, transliteration_feedback, character_mappings, now,
                 call, responses, in>>

CallEngineTransliterate(config, dbFails) ==
  /\ LET res == EngineTransliterate(config, dbFails, in.text, in.inputScript,
                                    in.outputScript, LocaleString(in.inputLocale))
     IN  out' = [op |-> "Engine.Transliterate", config |-> Ptr(config),
                 dbFails |-> dbFails,
                 output |-> IF res.err = NoErr THEN Deref(res.result).Output ELSE <<>>,
                 err |-> res.err]
  /\ UNCHANGED <<transliterations, transliteration_feedback, character_mappings, now,
                 call, responses, in>>

NextTransliteration ==
  \/ \E dbFails \in BOOLEAN : CallPerformTransliteration(dbFails)
  \/ \E dbFails \in BOOLEAN : CallPerformTransliterationWithValidation(dbFails)
  \/ \E config \in Configs, dbFails \in BOOLEAN : CallEngineTransliterate(config, dbFails)

SpecTransliteration == InitTransliteration /\ [][NextTransliteration]_vars

\* C7: a call with a non-empty text that reports success has a non-empty
\* output, whatever the scripts and the dictionary; where the characters of the
\* text all come to nothing, the call fails with the error of an empty result.
C7_NoSuccessWithEmptyOutput ==
  (out # Nil /\ in.text # <<>>
     /\ out.op \in {"performTransliterationWithValidation", "Engine.Transliterate"})
    => /\ out.err = NoErr => out.output # <<>>
       /\ (/\ out.op = "performTransliterationWithValidation"
           /\ performTransliteration(out.dbFails, in.text, in.inputScript, in.outputScript,
                                     in.inputLocale) = <<>>)
            => out.err = "transliteration produced empty result"

\* C7 witness: every character of a non-empty text came to nothing, with a
\* dictionary at hand, and the call failed.
C7_Witness ==
  /\ out # Nil /\ in.text # <<>> /\ character_mappings # {}
  /\ out.op = "performTransliterationWithValidation"
  /\ out.err = "transliteration produced empty result"

\* the strings of ASCII characters only
IsASCII(s) == \A i \in 1..Len(s) : s[i] \in 0..127

-----------------------------------------------------------------------------
(* Script detection (package detection) *)

\* detectLatinVariant
detectLatinVariant(r) ==
  IF r \in {259, 258, 273, 272, 432, 431, 417, 416} \/ (r >= 7840 /\ r <= 7929)
    THEN "vietnamese"
  ELSE IF r \in {228, 196, 246, 214, 252, 220, 223} THEN "german"
  ELSE "latin"

\* classifyRune
classifyRune(r) ==
  IF r >= 1024 /\ r <= 1279 THEN "cyrillic"
  ELSE IF r >= 1280 /\ r <= 1327 THEN "cyrillic"
  ELSE IF r >= 11744 /\ r <= 11775 THEN "cyrillic"
  ELSE IF r >= 19968 /\ r <= 40959 THEN "chinese"
  ELSE IF r >= 13312 /\ r <= 19903 THEN "chinese"
  ELSE IF r >= 131072 /\ r <= 173791 THEN "chinese"
  ELSE IF r >= 12352 /\ r <= 12447 THEN "japanese"
  ELSE IF r >= 12448 /\ r <= 12543 THEN "japanese"
  ELSE IF r >= 1536 /\ r <= 1791 THEN "arabic"
  ELSE IF r >= 1872 /\ r <= 1919 THEN "arabic"
  ELSE IF r >= 2208 /\ r <= 2303 THEN "arabic"
  ELSE IF r >= 880 /\ r <= 1023 THEN "greek"
  ELSE IF r >= 7936 /\ r <= 8191 THEN "greek"
  ELSE IF r >= 65 /\ r <= 90 THEN "latin"
  ELSE IF r >= 97 /\ r <= 122 THEN "latin"
  ELSE IF r >= 192 /\ r <= 591 THEN detectLatinVariant(r)
  ELSE IF r >= 7680 /\ r <= 7935 THEN detectLatinVariant(r)
  ELSE IF r >= 1424 /\ r <= 1535 THEN "hebrew"
  ELSE IF r >= 3584 /\ r <= 3711 THEN "thai"
  ELSE IF r >= 44032 /\ r <= 55215 THEN "korean"
  ELSE IF r >= 4352 /\ r <= 4607 THEN "korean"
  ELSE "unknown"

\* the keys scriptCounts can have
ScriptNames ==
  {"cyrillic", "chinese", "japanese", "arabic", "greek", "latin", "vietnamese",
   "german", "hebrew", "thai", "korean", "unknown"}

\* scriptCounts after the loop of DetectScript: script |-> number of letters
\* (0 for a key the Go map does not have)
ScriptCounts(text) ==
  LET rs == Runes(text)
  IN  [s \in ScriptNames |->
         Cardinality({i \in 1..Len(rs) : IsLetter(rs[i]) /\ classifyRune(rs[i]) = s})]

\* totalLetters after the loop of DetectScript
TotalLetters(text) ==
  LET rs == Runes(text) IN Cardinality({i \in 1..Len(rs) : IsLetter(rs[i])})

\* the dominant scripts: vietnamese, then german, come first; otherwise the loop
\* over the map keeps the first script it meets among those of the highest
\* count, and the order of that loop is not fixed, so each of them is possible
DominantScripts(text) ==
  LET scriptCounts == ScriptCounts(text)
      highest      == CHOOSE c \in {scriptCounts[s] : s \in ScriptNames} :
                        \A s \in ScriptNames : scriptCounts[s] <= c
  IN  IF scriptCounts["vietnamese"] > 0 THEN {"vietnamese"}
      ELSE IF scriptCounts["german"] > 0 THEN {"german"}
      ELSE {s \in ScriptNames : scriptCounts[s] = highest /\ highest > 0}

\* the confidence of DetectScript as a fraction <<numerator, denominator>>.
\* maxCount / totalLetters is compared exactly: the quotient of two small
\* integers and the literals 0.8, 0.6, 0.4 round to the same float64 when equal.
DetectConfidence(maxScript, maxCount, totalLetters, scriptCounts) ==
  IF 10 * maxCount > 8 * totalLetters THEN <<95, 100>>
  ELSE IF 10 * maxCount > 6 * totalLetters THEN <<85, 100>>
  ELSE IF 10 * maxCount > 4 * totalLetters THEN <<70, 100>>
  ELSE IF maxScript = "latin" /\ scriptCounts["latin"] > 0 THEN <<60, 100>>
  ELSE <<maxCount, totalLetters>>

\* DetectScript without its return for a text that has no letters
DetectScript_NoLetterGuard(text) ==
  LET scriptCounts == ScriptCounts(text)
      totalLetters == TotalLetters(text)
      dominant     == IF totalLetters = 0 THEN {"unknown"} ELSE DominantScripts(text)
  IN  IF text = <<>>
        THEN {[Script |-> "unknown", Confidence |-> <<0, 1>>, Details |-> Nil]}
      ELSE {[Script |-> maxScript,
             Confidence |-> DetectConfidence(maxScript, scriptCounts[maxScript],
                                             totalLetters, scriptCounts),
             Details |-> Ptr(scriptCounts)] : maxScript \in dominant}

\* DetectScript: the ScriptInfo values a call can return
DetectScript(text) ==
  LET scriptCounts == ScriptCounts(text)
      totalLetters == TotalLetters(text)
  IN  IF text = <<>>
        THEN {[Script |-> "unknown", Confidence |-> <<0, 1>>, Details |-> Nil]}
      ELSE IF totalLetters = 0
        THEN {[Script |-> "unknown", Confidence |-> <<0, 1>>, Details |-> Ptr(scriptCounts)]}
      ELSE {[Script |-> maxScript,
             Confidence |-> DetectConfidence(maxScript, scriptCounts[maxScript],
                                             totalLetters, scriptCounts),
             Details |-> Ptr(scriptCounts)] : maxScript \in DominantScripts(text)}

\* the characters the texts to detect are made of:
\* " " "1" "a" "ª" "ä" "ă" "đ" "я" "你" and a byte that is no UTF-8
DetectAlphabet == {32, 49, 97, 170, 228, 259, 273, 1103, 20320, BadByte}

DetectTexts == UNION {[1..n -> DetectAlphabet] : n \in 0..MaxDetectLen}

InitDetect ==
  /\ transliterations = <<>>
  /\ transliteration_feedback = <<>>
  /\ character_mappings = {}
  /\ now = 0
  /\ call = NoCall
  /\ responses = <<>>
  /\ in \in DetectTexts
  /\ out = Nil

CallDetectScript ==
  /\ \E info \in DetectScript(in) : out' = Ptr(info)
  /\ UNCHANGED <<transliterations, transliteration_feedback, character_mappings, now,
                 call, responses, in>>

NextDetect == CallDetectScript

SpecDetect == InitDetect /\ [][NextDetect]_vars

\* C10: DetectScript returns a ScriptInfo for every text; the confidence it
\* returns is at least 0 and at most 1; for the empty text and for a text
\* without letters it returns the script unknown with confidence 0.
C10_DetectScriptTotalAndBounded ==
  /\ DetectScript(in) # {}
  /\ out # Nil =>
       LET confidence == Deref(out).Confidence
       IN  /\ confidence[2] > 0
           /\ 0 <= confidence[1] /\ confidence[1] <= confidence[2]
           /\ (\A i \in 1..Len(in) : ~IsLetter(Runes(in)[i]))
                => Deref(out).Script = "unknown" /\ confidence[1] = 0

\* C10 witness: a text of digits, spaces and an invalid byte was given the
\* script unknown with confidence 0.
C10_Witness ==
  /\ out # Nil /\ in = <<49, 32, BadByte>>
  /\ Deref(out).Script = "unknown" /\ Deref(out).Confidence[1] = 0

-----------------------------------------------------------------------------
(* Package strings on sequences of code points.  Case mapping covers the   *)
(* ASCII and Latin-1 letters, which is what the names below are written in.*)

ToUpperRune(r) == IF r \in 97..122 \/ (r \in 224..254 /\ r # 247) THEN r - 32 ELSE r

ToLowerRune(r) == IF r \in 65..90 \/ (r \in 192..222 /\ r # 215) THEN r + 32 ELSE r

ToUpper(s) == [i \in 1..Len(s) |-> ToUpperRune(s[i])]

ToLower(s) == [i \in 1..Len(s) |-> ToLowerRune(s[i])]

\* strings.Title: the letter after a separator (or at the start) is upper-cased;
\* letters, digits and the underscore are no separators
isSeparator(r) == ~(IsLetter(r) \/ IsDigit(r) \/ r = 95) /\ (r < 128 \/ IsSpace(r))

Title(s) == [i \in 1..Len(s) |-> IF i = 1 \/ isSeparator(s[i - 1]) THEN ToUpperRune(s[i]) ELSE s[i]]

\* strings.Fields: the maximal runs of non-space characters, in order
RECURSIVE FieldsFrom(_, _, _)
FieldsFrom(s, i, cur) ==
  IF i > Len(s) THEN (IF cur = <<>> THEN <<>> ELSE <<cur>>)
  ELSE IF IsSpace(s[i])
       THEN (IF cur = <<>> THEN <<>> ELSE <<cur>>) \o FieldsFrom(s, i + 1, <<>>)
       ELSE FieldsFrom(s, i + 1, Append(cur, s[i]))

Fields(s) == FieldsFrom(s, 1, <<>>)

\* strings.Join
RECURSIVE Join(_, _)
Join(parts, sep) ==
  IF parts = <<>> THEN <<>>
  ELSE IF Len(parts) = 1 THEN parts[1]
  ELSE parts[1] \o sep \o Join(Tail(parts), sep)

\* strings.Trim(s, cutset) and strings.TrimSpace(s)
TrimSet(s, cut) ==
  LET keep == {i \in 1..Len(s) : s[i] \notin cut}
  IN  IF keep = {} THEN <<>>
      ELSE LET lo == CHOOSE i \in keep : \A j \in keep : i <= j
               hi == CHOOSE i \in keep : \A j \in keep : i >= j
           IN  SubSeq(s, lo, hi)

Trim(s, cutset) == TrimSet(s, {cutset[i] : i \in 1..Len(cutset)})

TrimSpace(s) == TrimSet(s, {s[i] : i \in {j \in 1..Len(s) : IsSpace(s[j])}})

\* strings.Contains, strings.HasSuffix
HasAt(s, i, sub) == i + Len(sub) - 1 <= Len(s) /\ \A k \in 1..Len(sub) : s[i + k - 1] = sub[k]

Contains(s, sub) == \E i \in 1..(Len(s) + 1) : HasAt(s, i, sub)

HasSuffix(s, suf) == Len(suf) <= Len(s) /\ HasAt(s, Len(s) - Len(suf) + 1, suf)

\* strings.ReplaceAll(s, old, ""), old not empty: the non-overlapping
\* occurrences of old are deleted from left to right
RECURSIVE RemoveAllFrom(_, _, _)
RemoveAllFrom(s, i, old) ==
  IF i > Len(s) THEN <<>>
  ELSE IF HasAt(s, i, old) THEN RemoveAllFrom(s, i + Len(old), old)
  ELSE <<s[i]>> \o RemoveAllFrom(s, i + 1, old)

RemoveAll(s, old) == RemoveAllFrom(s, 1, old)

\* a map[string]string literal as a set of <<key, value>> pairs
HasKey(table, k) == \E e \in table : e[1] = k

ValueOf(table, k) == (CHOOSE e \in table : e[1] = k)[2]

-----------------------------------------------------------------------------
(* Name parsing of the service (package transliterate).  A NameStructure   *)
(* is a record; the fields a parser does not set keep Go's zero value.     *)

NameStructure(family, first, middle, titles, fullASCII) ==
  [Family |-> family, First |-> first, Middle |-> middle, Titles |-> titles,
   Suffixes |-> <<>>, Particles |-> <<>>, FullASCII |-> fullASCII,
   OriginalForm |-> <<>>, Order |-> <<>>]

\* strings.Title(strings.ToLower(text))
toTitleCase(text) == Title(ToLower(text))

\* parts[1 : len(parts)-1]
Interior(parts) == SubSeq(parts, 2, Len(parts) - 1)

MapSeq(Op(_), s) == [i \in 1..Len(s) |-> Op(s[i])]

titlePatterns ==
  {<<68, 82>>, <<68, 79, 67, 84, 79, 82>>, <<80, 82, 79, 70>>, <<80, 82, 79, 70, 69, 83, 83, 79, 82>>, <<77, 82>>, <<77, 82, 83>>, <<77, 83>>, <<77, 73, 83, 83>>,
   <<83, 73, 82>>, <<68, 65, 77, 69>>, <<76, 79, 82, 68>>, <<76, 65, 68, 89>>, <<72, 79, 78>>, <<72, 79, 78, 79, 85, 82, 65, 66, 76, 69>>, <<82, 69, 86>>, <<82, 69, 86, 69, 82, 69, 78, 68>>}

formatTitle(title) ==
  LET u == ToUpper(title)
  IN  IF u \in {<<68, 82>>, <<68, 79, 67, 84, 79, 82>>} THEN <<68, 82>>
      ELSE IF u \in {<<80, 82, 79, 70>>, <<80, 82, 79, 70, 69, 83, 83, 79, 82>>} THEN <<80, 82, 79, 70>>
      ELSE IF u \in {<<82, 69, 86>>, <<82, 69, 86, 69, 82, 69, 78, 68>>} THEN <<82, 69, 86>>
      ELSE IF u \in {<<72, 79, 78>>, <<72, 79, 78, 79, 85, 82, 65, 66, 76, 69>>} THEN <<72, 79, 78>>
      ELSE u

extractTitles(text) ==
  LET cleanWord(word) == Trim(word, <<46, 44>>)
      hits == SelectSeq(MapSeq(cleanWord, Fields(ToUpper(text))), LAMBDA w : w \in titlePatterns)
  IN  MapSeq(formatTitle, hits)

\* the loops of removeTitles: for each title, the six ReplaceAll calls
RECURSIVE removeTitlesLoop(_, _)
removeTitlesLoop(result, titles) ==
  LET cut(x, pattern) == RemoveAll(RemoveAll(x, pattern \o <<46>>), pattern \o <<32>>)
      title == Head(titles)
  IN  IF titles = <<>> THEN result
      ELSE removeTitlesLoop(cut(cut(cut(result, ToUpper(title)), ToLower(title)), Title(ToLower(title))), Tail(titles))

removeTitles(text, titles) ==
  IF Len(titles) = 0 THEN text ELSE TrimSpace(removeTitlesLoop(text, titles))

formatFullName(family, first, middle, titles) ==
  Join(titles
       \o (IF first # <<>> THEN <<first>> ELSE <<>>)
       \o SelectSeq(middle, LAMBDA m : m # <<>>)
       \o (IF family # <<>> THEN <<family>> ELSE <<>>), <<32>>)

\* the tail every service parser shares: format and build the structure
BuildName(family, first, middle, titles) ==
  NameStructure(family, first, middle, titles, formatFullName(family, first, middle, titles))

VietnameseMarkers == {<<118, 97, 110>>, <<116, 104, 105>>, <<118, 259, 110>>, <<116, 104, 7883>>}

parseVietnameseName(original, transliterated, titles) ==
  LET parts == Fields(transliterated)
  IN  IF Len(parts) = 0 THEN NameStructure(<<>>, <<>>, <<>>, titles, transliterated)
      ELSE IF Len(parts) >= 2
      THEN BuildName(ToUpper(parts[1]), toTitleCase(parts[Len(parts)]),
                     MapSeq(toTitleCase, SelectSeq(Interior(parts), LAMBDA p : ToLower(p) \notin VietnameseMarkers)),
                     titles)
      ELSE BuildName(<<>>, toTitleCase(parts[1]), <<>>, titles)

parseChineseName(text, titles) ==
  LET parts == Fields(text)
  IN  IF Len(parts) = 0 THEN NameStructure(<<>>, <<>>, <<>>, titles, text)
      ELSE IF Len(parts) >= 2
      THEN BuildName(ToUpper(parts[1]), toTitleCase(parts[Len(parts)]), MapSeq(toTitleCase, Interior(parts)), titles)
      ELSE BuildName(<<>>, toTitleCase(parts[1]), <<>>, titles)

parseArabicName(text, titles) ==
  LET parts == Fields(text)
  IN  IF Len(parts) = 0 THEN NameStructure(<<>>, <<>>, <<>>, titles, text)
      ELSE IF Len(parts) >= 2
      THEN BuildName(ToUpper(parts[Len(parts)]), toTitleCase(parts[1]), MapSeq(toTitleCase, Interior(parts)), titles)
      ELSE BuildName(<<>>, toTitleCase(parts[1]), <<>>, titles)

parseMononymOrPatronymic(text, titles, script) ==
  LET parts == Fields(text)
      hasPatronymic == \E i \in 1..Len(parts) : ToLower(parts[i]) \in {<<98, 105, 110>>, <<98, 105, 110, 116, 105>>, <<105, 98, 110>>, <<98, 105, 110, 116>>}
  IN  IF Len(parts) = 0 THEN NameStructure(<<>>, <<>>, <<>>, titles, text)
      ELSE IF Len(parts) = 1 THEN BuildName(<<>>, toTitleCase(parts[1]), <<>>, titles)
      ELSE IF hasPatronymic
      THEN BuildName(<<>>, toTitleCase(parts[1]), MapSeq(toTitleCase, Tail(parts)), titles)
      ELSE BuildName(ToUpper(parts[Len(parts)]), toTitleCase(parts[1]), MapSeq(toTitleCase, Interior(parts)), titles)

parseWesternName(text, titles) ==
  LET parts == Fields(text)
  IN  IF Len(parts) = 0 THEN NameStructure(<<>>, <<>>, <<>>, titles, text)
      ELSE IF Len(parts) = 1 THEN BuildName(<<>>, toTitleCase(parts[1]), <<>>, titles)
      ELSE BuildName(ToUpper(parts[Len(parts)]), toTitleCase(parts[1]), MapSeq(toTitleCase, Interior(parts)), titles)

\* parseName: nil for the empty text, else a pointer to the structure
parseName(originalText, transliteratedText, inputScript) ==
  IF transliteratedText = <<>> THEN Nil
  ELSE LET titles == extractTitles(transliteratedText)
           textWithoutTitles == removeTitles(transliteratedText, titles)
       IN  Ptr(IF inputScript = "chinese" THEN parseChineseName(textWithoutTitles, titles)
               ELSE IF inputScript = "vietnamese" THEN parseVietnameseName(originalText, textWithoutTitles, titles)
               ELSE IF inputScript = "arabic" THEN parseArabicName(textWithoutTitles, titles)
               ELSE IF inputScript \in {"indonesian", "malayalam"}
                    THEN parseMononymOrPatronymic(textWithoutTitles, titles, inputScript)
               ELSE parseWesternName(textWithoutTitles, titles))

-----------------------------------------------------------------------------
(* Package nameparser: Parser.ParseName and what it calls.  The two fields *)
(* of Parser are read by no method, so the methods are plain operators.    *)

titleMapping ==
  {<<<<100, 114>>, <<68, 114>>>>, <<<<100, 111, 99, 116, 111, 114>>, <<68, 114>>>>, <<<<112, 114, 111, 102>>, <<80, 114, 111, 102>>>>, <<<<112, 114, 111, 102, 101, 115, 115, 111, 114>>, <<80, 114, 111, 102>>>>,
   <<<<109, 114>>, <<77, 114>>>>, <<<<109, 114, 115>>, <<77, 114, 115>>>>, <<<<109, 115>>, <<77, 115>>>>, <<<<109, 105, 115, 115>>, <<77, 105, 115, 115>>>>, <<<<109, 120>>, <<77, 120>>>>,
   <<<<115, 105, 114>>, <<83, 105, 114>>>>, <<<<100, 97, 109, 101>>, <<68, 97, 109, 101>>>>, <<<<108, 111, 114, 100>>, <<76, 111, 114, 100>>>>, <<<<108, 97, 100, 121>>, <<76, 97, 100, 121>>>>,
   <<<<104, 111, 110>>, <<72, 111, 110>>>>, <<<<104, 111, 110, 111, 117, 114, 97, 98, 108, 101>>, <<72, 111, 110>>>>, <<<<114, 101, 118>>, <<82, 101, 118>>>>, <<<<114, 101, 118, 101, 114, 101, 110, 100>>, <<82, 101, 118>>>>,
   <<<<112, 104, 100>>, <<80, 104, 68>>>>, <<<<109, 100>>, <<77, 68>>>>, <<<<106, 100>>, <<74, 68>>>>, <<<<101, 115, 113>>, <<69, 115, 113>>>>,
   <<<<104, 101, 114, 114>>, <<77, 114>>>>, <<<<102, 114, 97, 117>>, <<77, 114, 115>>>>, <<<<102, 114, 97, 117, 108, 101, 105, 110>>, <<77, 115>>>>,
   <<<<115, 101, 241, 111, 114>>, <<77, 114>>>>, <<<<115, 101, 241, 111, 114, 97>>, <<77, 114, 115>>>>, <<<<115, 101, 241, 111, 114, 105, 116, 97>>, <<77, 115>>>>,
   <<<<109, 111, 110, 115, 105, 101, 117, 114>>, <<77, 114>>>>, <<<<109, 97, 100, 97, 109, 101>>, <<77, 114, 115>>>>, <<<<109, 97, 100, 101, 109, 111, 105, 115, 101, 108, 108, 101>>, <<77, 115>>>>}

suffixMapping ==
  {<<<<106, 114>>, <<74, 114>>>>, <<<<106, 117, 110, 105, 111, 114>>, <<74, 114>>>>, <<<<115, 114>>, <<83, 114>>>>, <<<<115, 101, 110, 105, 111, 114>>, <<83, 114>>>>,
   <<<<105, 105>>, <<73, 73>>>>, <<<<105, 105, 105>>, <<73, 73, 73>>>>, <<<<105, 118>>, <<73, 86>>>>, <<<<118>>, <<86>>>>,
   <<<<50, 110, 100>>, <<73, 73>>>>, <<<<51, 114, 100>>, <<73, 73, 73>>>>, <<<<52, 116, 104>>, <<73, 86>>>>, <<<<53, 116, 104>>, <<86>>>>,
   <<<<112, 104, 100>>, <<80, 104, 68>>>>, <<<<109, 100>>, <<77, 68>>>>, <<<<101, 115, 113>>, <<69, 115, 113>>>>}

\* strings.ToLower(strings.Trim(word, ".,"))
Cleaned(word) == ToLower(Trim(word, <<46, 44>>))

ParserExtractTitles(text) ==
  LET title(word) == ValueOf(titleMapping, Cleaned(word))
  IN  MapSeq(title, SelectSeq(Fields(text), LAMBDA word : HasKey(titleMapping, Cleaned(word))))

\* the loop of extractSuffixes, from the last word down: i is the index of
\* the word looked at, suffixes what was found so far
RECURSIVE extractSuffixesLoop(_, _, _)
extractSuffixesLoop(words, i, suffixes) ==
  IF i < 1 \/ Len(suffixes) >= 3 THEN suffixes
  ELSE IF HasKey(suffixMapping, Cleaned(words[i]))
       THEN extractSuffixesLoop(words, i - 1, <<ValueOf(suffixMapping, Cleaned(words[i]))>> \o suffixes)
  ELSE IF Len(suffixes) > 0 THEN suffixes
  ELSE extractSuffixesLoop(words, i - 1, suffixes)

extractSuffixes(text) == LET words == Fields(text) IN extractSuffixesLoop(words, Len(words), <<>>)

\* the set removeTitles and removeSuffixes build from the extracted values
LowerSet(values) == {ToLower(Trim(values[i], <<46>>)) : i \in 1..Len(values)}

ParserRemoveTitles(text, titles) ==
  IF Len(titles) = 0 THEN text
  ELSE TrimSpace(Join(SelectSeq(Fields(text), LAMBDA word : Cleaned(word) \notin LowerSet(titles)), <<32>>))

RECURSIVE removeSuffixesLoop(_, _)
removeSuffixesLoop(words, suffixSet) ==
  IF Len(words) > 0 /\ Cleaned(words[Len(words)]) \in suffixSet
  THEN removeSuffixesLoop(SubSeq(words, 1, Len(words) - 1), suffixSet)
  ELSE words

removeSuffixes(text, suffixes) ==
  IF Len(suffixes) = 0 THEN text
  ELSE TrimSpace(Join(removeSuffixesLoop(Fields(text), LowerSet(suffixes)), <<32>>))

AnyRune(text, lo, hi) == \E i \in 1..Len(text) : text[i] >= lo /\ text[i] <= hi

looksVietnamese(text) ==
  LET markers == {<<259>>, <<226>>, <<273>>, <<234>>, <<244>>, <<417>>, <<432>>, <<116, 104, 7883>>, <<118, 259, 110>>}
  IN  Cardinality({m \in markers : Contains(ToLower(text), m)}) >= 2

looksChinese(text) == AnyRune(text, 19968, 40959)

looksJapanese(text) == AnyRune(text, 12352, 12447) \/ AnyRune(text, 12448, 12543)

looksKorean(text) == AnyRune(text, 44032, 55215)

looksArabic(text) == AnyRune(text, 1536, 1791)

\* CulturalContext, by the two fields the parser reads
getCulturalContext(culture, language, originalText) ==
  IF culture = "vietnamese" \/ language = <<118, 105>> \/ looksVietnamese(originalText)
    THEN [Culture |-> "vietnamese", NameOrder |-> "family-first"]
  ELSE IF culture = "chinese" \/ language \in {<<122, 104>>, <<122, 104, 45, 67, 78>>, <<122, 104, 45, 84, 87>>} \/ looksChinese(originalText)
    THEN [Culture |-> "chinese", NameOrder |-> "family-first"]
  ELSE IF culture = "japanese" \/ language = <<106, 97>> \/ looksJapanese(originalText)
    THEN [Culture |-> "japanese", NameOrder |-> "family-first"]
  ELSE IF culture = "korean" \/ language = <<107, 111>> \/ looksKorean(originalText)
    THEN [Culture |-> "korean", NameOrder |-> "family-first"]
  ELSE IF culture = "arabic" \/ language = <<97, 114>> \/ looksArabic(originalText)
    THEN [Culture |-> "arabic", NameOrder |-> "given-first"]
  ELSE IF Contains(language, <<105, 110>>) \/ culture = "indonesian" \/ culture = "malaysian"
    THEN [Culture |-> "indonesian", NameOrder |-> "given-first"]
  ELSE [Culture |-> "western", NameOrder |-> "given-first"]

\* &NameStructure{} with the fields a split sets
Split(family, first, middle, particles) ==
  [Family |-> family, First |-> first, Middle |-> middle, Titles |-> <<>>,
   Suffixes |-> <<>>, Particles |-> particles, FullASCII |-> <<>>,
   OriginalForm |-> <<>>, Order |-> <<>>]

\* family name first, given name last (Vietnamese, Chinese, Japanese, Korean)
FamilyFirstSplit(parts) ==
  IF Len(parts) = 0 THEN Split(<<>>, <<>>, <<>>, <<>>)
  ELSE IF Len(parts) >= 2
  THEN Split(ToUpper(parts[1]), toTitleCase(parts[Len(parts)]), MapSeq(toTitleCase, Interior(parts)), <<>>)
  ELSE Split(<<>>, toTitleCase(parts[1]), <<>>, <<>>)

parseVietnamese(original, text) == FamilyFirstSplit(Fields(text))

parseChinese(text) == FamilyFirstSplit(Fields(text))

parseKorean(text) == FamilyFirstSplit(Fields(text))

honorifics == <<<<45, 115, 97, 110>>, <<45, 107, 117, 110>>, <<45, 99, 104, 97, 110>>, <<45, 115, 97, 109, 97>>, <<45, 115, 101, 110, 115, 101, 105>>, <<45, 115, 101, 110, 112, 97, 105>>>>

RECURSIVE removeHonorificsLoop(_, _)
removeHonorificsLoop(text, hs) ==
  IF hs = <<>> THEN text ELSE removeHonorificsLoop(RemoveAll(text, Head(hs)), Tail(hs))

removeJapaneseHonorifics(text) == TrimSpace(removeHonorificsLoop(text, honorifics))

parseJapanese(text) == FamilyFirstSplit(Fields(removeJapaneseHonorifics(text)))

\* parseArabic with the words between first and family copied as they are
parseArabic_MiddleVerbatim(text) ==
  LET parts == Fields(text)
  IN  IF Len(parts) = 0 THEN Split(<<>>, <<>>, <<>>, <<>>)
      ELSE IF Len(parts) >= 2
      THEN Split(ToUpper(parts[Len(parts)]), toTitleCase(parts[1]), Interior(parts), <<>>)
      ELSE Split(<<>>, toTitleCase(parts[1]), <<>>, <<>>)

parseArabic(text) ==
  LET parts == Fields(text)
  IN  IF Len(parts) = 0 THEN Split(<<>>, <<>>, <<>>, <<>>)
      ELSE IF Len(parts) >= 2
      THEN Split(ToUpper(parts[Len(parts)]), toTitleCase(parts[1]), MapSeq(toTitleCase, Interior(parts)), <<>>)
      ELSE Split(<<>>, toTitleCase(parts[1]), <<>>, <<>>)

parseIndonesian(text) ==
  LET parts == Fields(text)
      hasPatronymic == \E i \in 1..Len(parts) : ToLower(parts[i]) \in {<<98, 105, 110>>, <<98, 105, 110, 116, 105>>, <<98, 105, 110, 116, 101>>}
  IN  IF Len(parts) = 0 THEN Split(<<>>, <<>>, <<>>, <<>>)
      ELSE IF Len(parts) = 1 THEN Split(<<>>, toTitleCase(parts[1]), <<>>, <<>>)
      ELSE IF hasPatronymic THEN Split(<<>>, toTitleCase(parts[1]), MapSeq(toTitleCase, Tail(parts)), <<>>)
      ELSE Split(ToUpper(parts[Len(parts)]), toTitleCase(parts[1]), MapSeq(toTitleCase, Interior(parts)), <<>>)

particleSet ==
  {<<100, 101>>, <<100, 101, 108>>, <<100, 101, 108, 108, 97>>, <<100, 105>>, <<100, 97>>, <<118, 97, 110>>, <<118, 111, 110>>, <<100, 101, 114>>, <<100, 101, 110>>, <<116, 101, 114>>,
   <<108, 101>>, <<108, 97>>, <<100, 117>>, <<100, 101, 115>>, <<98, 105, 110>>, <<98, 105, 110, 116, 105>>, <<105, 98, 110>>, <<98, 105, 110, 116>>, <<97, 108>>, <<101, 108>>}

\* extractParticles without the step that joins the particles to the family word
extractParticles_NotMerged(parts) ==
  LET isParticle(i) == ToLower(parts[i]) \in particleSet /\ i > 1 /\ i < Len(parts)
      at(idx) == [k \in 1..Len(idx) |-> parts[idx[k]]]
      indices == [i \in 1..Len(parts) |-> i]
  IN  <<MapSeq(ToLower, at(SelectSeq(indices, isParticle))), at(SelectSeq(indices, LAMBDA i : ~isParticle(i)))>>

\* <<particles, cleanParts>>
extractParticles(parts) ==
  LET isParticle(i) == ToLower(parts[i]) \in particleSet /\ i > 1 /\ i < Len(parts)
      at(idx) == [k \in 1..Len(idx) |-> parts[idx[k]]]
      indices == [i \in 1..Len(parts) |-> i]
      particles == MapSeq(ToLower, at(SelectSeq(indices, isParticle)))
      cleanParts == at(SelectSeq(indices, LAMBDA i : ~isParticle(i)))
  IN  IF Len(particles) > 0 /\ Len(cleanParts) > 1
      THEN <<particles, [cleanParts EXCEPT ![Len(cleanParts)] = Join(Append(particles, cleanParts[Len(cleanParts)]), <<32>>)]>>
      ELSE <<particles, cleanParts>>

parseWestern(text) ==
  LET parts == Fields(text)
      particles == extractParticles(parts)[1]
      cleanParts == extractParticles(parts)[2]
  IN  IF Len(parts) = 0 THEN Split(<<>>, <<>>, <<>>, <<>>)
      ELSE IF Len(cleanParts) = 1 THEN Split(<<>>, toTitleCase(cleanParts[1]), <<>>, particles)
      ELSE Split(ToUpper(cleanParts[Len(cleanParts)]), toTitleCase(cleanParts[1]), MapSeq(toTitleCase, Interior(cleanParts)), particles)

ParserFormatFullName(name, context) ==
  LET present(s) == IF s # <<>> THEN <<s>> ELSE <<>>
      middle == SelectSeq(name.Middle, LAMBDA m : m # <<>>)
  IN  Join(name.Titles
           \o (IF context.NameOrder = "family-first"
               THEN present(name.Family) \o present(name.First) \o middle
               ELSE present(name.First) \o middle \o present(name.Family))
           \o name.Suffixes, <<32>>)

\* cleanText of ParseName: the text handed to the culture's split
ParserCleanText(transliteratedText) ==
  LET withoutTitles == ParserRemoveTitles(transliteratedText, ParserExtractTitles(transliteratedText))
  IN  removeSuffixes(withoutTitles, extractSuffixes(withoutTitles))

ParseName(originalText, transliteratedText, culture, language) ==
  IF transliteratedText = <<>>
  THEN [Split(<<>>, <<>>, <<>>, <<>>) EXCEPT !.OriginalForm = originalText]
  ELSE LET titles == ParserExtractTitles(transliteratedText)
           suffixes == extractSuffixes(ParserRemoveTitles(transliteratedText, titles))
           cleanText == ParserCleanText(transliteratedText)
           context == getCulturalContext(culture, language, originalText)
           split == IF context.Culture = "vietnamese" THEN parseVietnamese(originalText, cleanText)
                    ELSE IF context.Culture = "chinese" THEN parseChinese(cleanText)
                    ELSE IF context.Culture = "japanese" THEN parseJapanese(cleanText)
                    ELSE IF context.Culture = "arabic" THEN parseArabic(cleanText)
                    ELSE IF context.Culture = "korean" THEN parseKorean(cleanText)
                    ELSE IF context.Culture \in {"indonesian", "malaysian"} THEN parseIndonesian(cleanText)
                    ELSE parseWestern(cleanText)
           result == [split EXCEPT !.Titles = titles, !.Suffixes = suffixes,
                                   !.OriginalForm = originalText, !.Order = context.NameOrder]
       IN  [result EXCEPT !.FullASCII = ParserFormatFullName(result, context)]

-----------------------------------------------------------------------------
(* Gender inference: inferGender of the service and package gender.        *)
(* Confidence is in hundredths; the Reason text of the engine is left out. *)

Inference(value, confidence, source) == [Value |-> value, Confidence |-> confidence, Source |-> source]

ContainsAny(text, fragments) == \E f \in fragments : Contains(text, f)

\* the script names of this module that contain "vietnam" are "vietnamese" only
inferGender(originalText, transliteratedText, inputScript) ==
  LET original == ToLower(originalText)
      text == ToLower(transliteratedText)
      default == Inference("X", 10, "unknown")
      arabic == IF inputScript # "arabic" THEN default
                ELSE IF Contains(text, <<98, 105, 110, 32>>) \/ Contains(text, <<105, 98, 110, 32>>) THEN Inference("M", 75, "cultural_marker")
                ELSE IF Contains(text, <<98, 105, 110, 116, 32>>) THEN Inference("F", 75, "cultural_marker")
                ELSE default
      malay == IF inputScript \notin {"indonesian", "malayalam"} THEN arabic
               ELSE IF Contains(text, <<98, 105, 110, 32>>) THEN Inference("M", 80, "cultural_marker")
               ELSE IF Contains(text, <<98, 105, 110, 116, 105, 32>>) THEN Inference("F", 80, "cultural_marker")
               ELSE arabic
  IN  IF inputScript = "vietnamese" /\ (Contains(original, <<118, 259, 110>>) \/ Contains(text, <<118, 97, 110>>))
        THEN Inference("M", 85, "cultural_marker")
      ELSE IF inputScript = "vietnamese" /\ (Contains(original, <<116, 104, 7883>>) \/ Contains(text, <<116, 104, 105>>))
        THEN Inference("F", 85, "cultural_marker")
      ELSE malay

inferVietnamese(original, transliterated) ==
  LET originalLower == ToLower(original)
      transliteratedLower == ToLower(transliterated)
      maleMarkers == {<<109, 105, 110, 104>>, <<100, 117, 99>>, <<104, 111, 97, 110, 103>>, <<113, 117, 97, 110, 103>>, <<116, 104, 97, 110, 104>>, <<116, 117, 97, 110>>, <<104, 117, 110, 103>>, <<100, 117, 110, 103>>, <<112, 104, 111, 110, 103>>}
      femaleMarkers == {<<108, 105, 110, 104>>, <<109, 97, 105>>, <<108, 97, 110>>, <<121, 101, 110>>, <<104, 117, 111, 110, 103>>, <<110, 103, 111, 99>>, <<116, 104, 117, 121>>, <<97, 110, 104>>, <<104, 97>>}
  IN  IF Contains(originalLower, <<118, 259, 110>>) \/ Contains(transliteratedLower, <<118, 97, 110>>) THEN Inference("M", 85, "cultural_marker")
      ELSE IF Contains(originalLower, <<116, 104, 7883>>) \/ Contains(transliteratedLower, <<116, 104, 105>>) THEN Inference("F", 85, "cultural_marker")
      ELSE IF ContainsAny(transliteratedLower, maleMarkers) THEN Inference("M", 65, "cultural_marker")
      ELSE IF ContainsAny(transliteratedLower, femaleMarkers) THEN Inference("F", 65, "cultural_marker")
      ELSE Inference("X", 10, "unknown")

inferArabic(text) ==
  LET textLower == ToLower(text)
      maleNames == {<<97, 104, 109, 97, 100>>, <<109, 117, 104, 97, 109, 109, 97, 100>>, <<97, 108, 105>>, <<111, 109, 97, 114>>, <<107, 104, 97, 108, 105, 100>>, <<104, 97, 115, 115, 97, 110>>, <<105, 98, 114, 97, 104, 105, 109>>, <<121, 111, 117, 115, 101, 102>>, <<97, 98, 100, 117, 108, 108, 97, 104>>}
      femaleNames == {<<102, 97, 116, 105, 109, 97>>, <<97, 105, 115, 104, 97>>, <<115, 97, 114, 97, 104>>, <<109, 97, 114, 105, 97, 109>>, <<122, 97, 104, 114, 97>>, <<108, 97, 121, 108, 97>>, <<97, 109, 105, 110, 97>>, <<107, 104, 97, 100, 105, 106, 97>>, <<110, 111, 117, 114>>}
  IN  IF Contains(textLower, <<98, 105, 110, 32>>) \/ Contains(textLower, <<105, 98, 110, 32>>) THEN Inference("M", 90, "cultural_marker")
      ELSE IF Contains(textLower, <<98, 105, 110, 116, 32>>) \/ Contains(textLower, <<98, 105, 110, 116, 101, 32>>) THEN Inference("F", 90, "cultural_marker")
      ELSE IF ContainsAny(textLower, maleNames) THEN Inference("M", 75, "cultural_marker")
      ELSE IF ContainsAny(textLower, femaleNames) THEN Inference("F", 75, "cultural_marker")
      ELSE Inference("X", 10, "unknown")

inferIndonesian(text) ==
  LET textLower == ToLower(text)
      maleNames == {<<97, 104, 109, 97, 100>>, <<109, 117, 104, 97, 109, 109, 97, 100>>, <<97, 100, 105>>, <<98, 117, 100, 105>>, <<101, 107, 111>>, <<104, 97, 100, 105>>, <<105, 110, 100, 114, 97>>, <<106, 111, 107, 111>>, <<114, 117, 100, 105>>}
      femaleNames == {<<115, 97, 114, 105>>, <<100, 101, 119, 105>>, <<114, 105, 110, 97>>, <<109, 97, 121, 97>>, <<105, 110, 100, 97, 104>>, <<102, 105, 116, 114, 105>>, <<119, 97, 116, 105>>, <<110, 105, 110, 103>>, <<115, 114, 105>>}
  IN  IF Contains(textLower, <<98, 105, 110, 32>>) THEN Inference("M", 88, "cultural_marker")
      ELSE IF Contains(textLower, <<98, 105, 110, 116, 105, 32>>) \/ Contains(textLower, <<98, 105, 110, 116, 101, 32>>) THEN Inference("F", 88, "cultural_marker")
      ELSE IF ContainsAny(textLower, maleNames) THEN Inference("M", 70, "cultural_marker")
      ELSE IF ContainsAny(textLower, femaleNames) THEN Inference("F", 70, "cultural_marker")
      ELSE Inference("X", 10, "unknown")

inferChinese(original, transliterated) ==
  LET textLower == ToLower(transliterated)
      maleIndicators == {<<106, 105, 97, 110>>, <<109, 105, 110, 103>>, <<119, 101, 105>>, <<103, 97, 110, 103>>, <<106, 117, 110>>, <<113, 105, 97, 110, 103>>, <<108, 101, 105>>, <<98, 105, 110>>}
      femaleIndicators == {<<108, 105>>, <<109, 101, 105>>, <<104, 117, 97>>, <<121, 97, 110>>, <<104, 111, 110, 103>>, <<112, 105, 110, 103>>, <<110, 97>>, <<106, 105, 110, 103>>, <<120, 117, 101>>}
  IN  IF ContainsAny(textLower, maleIndicators) THEN Inference("M", 55, "statistical")
      ELSE IF ContainsAny(textLower, femaleIndicators) THEN Inference("F", 55, "statistical")
      ELSE Inference("X", 10, "unknown")

inferJapanese(original, transliterated) ==
  LET textLower == ToLower(transliterated)
  IN  IF \E suf \in {<<107, 111>>, <<109, 105>>, <<107, 97>>} : HasSuffix(textLower, suf) THEN Inference("F", 70, "cultural_marker")
      ELSE IF \E suf \in {<<114, 111>>, <<116, 97>>, <<107, 105>>} : HasSuffix(textLower, suf) THEN Inference("M", 60, "cultural_marker")
      ELSE Inference("X", 10, "unknown")

inferIndian(text) ==
  LET textLower == ToLower(text)
      maleNames == {<<114, 97, 106>>, <<107, 117, 109, 97, 114>>, <<115, 105, 110, 103, 104>>, <<100, 101, 118>>, <<107, 114, 105, 115, 104, 110, 97>>, <<114, 97, 109>>, <<115, 104, 97, 114, 109, 97>>, <<103, 117, 112, 116, 97>>, <<97, 110, 105, 108>>, <<115, 117, 110, 105, 108>>}
      femaleNames == {<<100, 101, 118, 105>>, <<107, 117, 109, 97, 114, 105>>, <<112, 114, 105, 121, 97>>, <<115, 105, 116, 97>>, <<103, 105, 116, 97>>, <<108, 97, 116, 97>>, <<114, 97, 110, 105>>, <<115, 104, 97, 110, 116, 105>>, <<109, 97, 121, 97>>, <<114, 97, 100, 104, 97>>}
  IN  IF ContainsAny(textLower, maleNames) THEN Inference("M", 75, "cultural_marker")
      ELSE IF ContainsAny(textLower, femaleNames) THEN Inference("F", 75, "cultural_marker")
      ELSE Inference("X", 10, "unknown")

\* the first word, in order, that decides; a word that is a male and a female
\* name cannot occur, the two lists are disjoint
inferWestern(e, text, language) ==
  LET words == Fields(ToLower(text))
      maleNames == {<<106, 111, 104, 110>>, <<100, 97, 118, 105, 100>>, <<109, 105, 99, 104, 97, 101, 108>>, <<106, 97, 109, 101, 115>>, <<114, 111, 98, 101, 114, 116>>, <<119, 105, 108, 108, 105, 97, 109>>, <<114, 105, 99, 104, 97, 114, 100>>, <<116, 104, 111, 109, 97, 115>>, <<109, 97, 114, 107>>, <<100, 97, 110, 105, 101, 108>>}
      femaleNames == {<<109, 97, 114, 121>>, <<112, 97, 116, 114, 105, 99, 105, 97>>, <<106, 101, 110, 110, 105, 102, 101, 114>>, <<108, 105, 110, 100, 97>>, <<101, 108, 105, 122, 97, 98, 101, 116, 104>>, <<98, 97, 114, 98, 97, 114, 97>>, <<115, 117, 115, 97, 110>>, <<106, 101, 115, 115, 105, 99, 97>>, <<115, 97, 114, 97, 104>>, <<107, 97, 114, 101, 110>>}
      named == SelectSeq(words, LAMBDA w : w \in maleNames \cup femaleNames)
      femaleEnding(w) == \E suf \in {<<97>>, <<105, 97>>, <<105, 110, 97>>} : HasSuffix(w, suf)
      maleEnding(w) == \E suf \in {<<101, 114>>, <<111, 110>>, <<117, 115>>} : HasSuffix(w, suf)
      ended == SelectSeq(words, LAMBDA w : ByteLen(w) > 2 /\ (femaleEnding(w) \/ maleEnding(w)))
  IN  IF named # <<>>
      THEN (IF named[1] \in maleNames THEN Inference("M", 85, "statistical") ELSE Inference("F", 85, "statistical"))
      ELSE IF e.useStatistical /\ ended # <<>>
      THEN (IF femaleEnding(ended[1]) THEN Inference("F", 60, "statistical") ELSE Inference("M", 55, "statistical"))
      ELSE Inference("X", 10, "unknown")

inferFromCulturalMarkers(e, original, transliterated, culture, language) ==
  IF culture = "vietnamese" \/ language = <<118, 105>> \/ looksVietnamese(original) THEN inferVietnamese(original, transliterated)
  ELSE IF culture = "arabic" \/ language = <<97, 114>> \/ looksArabic(original) THEN inferArabic(transliterated)
  ELSE IF culture \in {"indonesian", "malaysian"} \/ Contains(language, <<105, 100>>) \/ Contains(language, <<109, 115>>)
    THEN inferIndonesian(transliterated)
  ELSE IF culture = "chinese" \/ language \in {<<122, 104>>, <<122, 104, 45, 67, 78>>, <<122, 104, 45, 84, 87>>} THEN inferChinese(original, transliterated)
  ELSE IF culture = "japanese" \/ language = <<106, 97>> THEN inferJapanese(original, transliterated)
  ELSE IF culture = "korean" \/ language = <<107, 111>> THEN Inference("X", 10, "unknown")
  ELSE IF culture = "indian" \/ language \in {<<104, 105>>, <<116, 97>>, <<116, 101>>} THEN inferIndian(transliterated)
  ELSE IF culture = "thai" \/ language = <<116, 104>> THEN Inference("X", 10, "unknown")
  ELSE inferWestern(e, transliterated, language)

\* inferFromStatisticalPatterns answering with the default of InferGender
inferFromStatisticalPatterns_Unknown(e, text, culture, language) ==
  IF ~e.useStatistical THEN Inference("X", 0, "disabled") ELSE Inference("X", 10, "unknown")

inferFromStatisticalPatterns(e, text, culture, language) ==
  IF ~e.useStatistical THEN Inference("X", 0, "disabled") ELSE Inference("X", 20, "statistical")

\* InferGender without its two guards on the statistical tier: a weak cultural
\* result is replaced by whatever inferFromStatisticalPatterns returns
InferGender_StatisticalUnguarded(e, originalText, transliteratedText, culture, language) ==
  LET cultural == inferFromCulturalMarkers(e, originalText, transliteratedText, culture, language)
  IN  IF cultural.Confidence < 50
      THEN inferFromStatisticalPatterns(e, transliteratedText, culture, language)
      ELSE cultural

InferGender(e, originalText, transliteratedText, culture, language) ==
  LET default == Inference("X", 10, "unknown")
      cultural == inferFromCulturalMarkers(e, originalText, transliteratedText, culture, language)
      result == IF cultural.Confidence > default.Confidence THEN cultural ELSE default
      statistical == inferFromStatisticalPatterns(e, transliteratedText, culture, language)
  IN  IF e.useStatistical /\ result.Confidence < 50 /\ statistical.Confidence > result.Confidence
      THEN statistical
      ELSE result

GetGenderFromTitle(title) ==
  LET titleLower == ToLower(Trim(title, <<46>>))
  IN  IF titleLower \in {<<109, 114>>, <<115, 105, 114>>, <<108, 111, 114, 100>>, <<104, 101, 114, 114>>, <<115, 101, 241, 111, 114>>, <<109, 111, 110, 115, 105, 101, 117, 114>>} THEN Inference("M", 95, "cultural_marker")
      ELSE IF titleLower \in {<<109, 114, 115>>, <<109, 115>>, <<109, 105, 115, 115>>, <<108, 97, 100, 121>>, <<100, 97, 109, 101>>, <<102, 114, 97, 117>>, <<115, 101, 241, 111, 114, 97>>, <<115, 101, 241, 111, 114, 105, 116, 97>>, <<109, 97, 100, 97, 109, 101>>, <<109, 97, 100, 101, 109, 111, 105, 115, 101, 108, 108, 101>>}
        THEN Inference("F", 95, "cultural_marker")
      ELSE IF titleLower = <<109, 120>> THEN Inference("X", 95, "cultural_marker")
      ELSE Inference("X", 10, "unknown")

-----------------------------------------------------------------------------
(* Specification of the name parsers as pure functions: a name of up to    *)
(* MaxNameTokens words of its culture's vocabulary is parsed by the        *)
(* service's parseName and by Parser.ParseName and its gender is inferred;  *)
(* each behaviour is one call on one input.                                *)

NameCultures == {"latin", "vietnamese", "japanese", "arabic", "indonesian"}

NameWords(culture) ==
  IF culture = "latin" THEN {<<68, 114>>, <<68, 111, 99, 116, 111, 114>>, <<77, 114, 115>>, <<65, 108, 101, 120, 97, 110, 100, 114>>, <<100, 101>>, <<74, 114, 46>>}
  ELSE IF culture = "vietnamese" THEN {<<68, 111, 99, 116, 111, 114>>, <<78, 103, 117, 121, 101, 110>>, <<86, 97, 110>>, <<84, 104, 105>>, <<77, 105, 110, 104>>}
  ELSE IF culture = "japanese" THEN {<<84, 97, 110, 97, 107, 97, 45, 115, 97, 110>>, <<89, 111, 107, 111>>, <<68, 114, 46>>}
  ELSE IF culture = "arabic" THEN {<<65, 105, 115, 104, 97>>, <<98, 105, 110>>, <<98, 105, 110, 116>>, <<77, 117, 98, 105, 110>>, <<75, 104, 97, 108, 105, 100>>}
  ELSE {<<83, 105, 116, 105>>, <<98, 105, 110>>, <<98, 105, 110, 116, 105>>, <<98, 105, 110, 116, 101>>, <<83, 117, 104, 97, 114, 116, 111>>}

\* the names of a culture: its words joined by single spaces
NamesOf(culture) == {Join(ws, <<32>>) : ws \in SeqUpTo(NameWords(culture), MaxNameTokens)}

\* an original text in kanji and kana, as a Japanese name is written
KanjiOriginal == <<30000, 20013, 12373, 12435>>

NameInputs ==
  UNION {[originalText : {<<>>, KanjiOriginal}, transliteratedText : NamesOf(c),
          culture : {c}, language : {<<>>}] : c \in NameCultures}

InitNames ==
  /\ transliterations = <<>>
  /\ transliteration_feedback = <<>>
  /\ character_mappings = {}
  /\ now = 0
  /\ call = NoCall
  /\ responses = <<>>
  /\ in \in NameInputs
  /\ out = Nil

\* parseName(originalText, transliteratedText, inputScript) of the service;
\* rest is textWithoutTitles, word by word
CallParseName ==
  /\ out = Nil
  /\ out' = [op |-> "parseName",
             name |-> parseName(in.originalText, in.transliteratedText, in.culture),
             rest |-> Fields(removeTitles(in.transliteratedText, extractTitles(in.transliteratedText))),
             cleanText |-> removeTitles(in.transliteratedText, extractTitles(in.transliteratedText)),
             context |-> in.culture]
  /\ UNCHANGED <<transliterations, transliteration_feedback, character_mappings, now,
                 call, responses, in>>

\* Parser.ParseName(originalText, transliteratedText, culture, language);
\* rest is cleanText after removeTitles, cleanText the text handed to the split
CallParserParseName ==
  /\ out = Nil
  /\ out' = [op |-> "Parser.ParseName",
             name |-> Ptr(ParseName(in.originalText, in.transliteratedText, in.culture, in.language)),
             rest |-> Fields(ParserRemoveTitles(in.transliteratedText, ParserExtractTitles(in.transliteratedText))),
             cleanText |-> ParserCleanText(in.transliteratedText),
             context |-> getCulturalContext(in.culture, in.language, in.originalText).Culture]
  /\ UNCHANGED <<transliterations, transliteration_feedback, character_mappings, now,
                 call, responses, in>>

\* inferGender(originalText, transliteratedText, inputScript) of the service
CallInferGender ==
  /\ out = Nil
  /\ out' = [op |-> "inferGender", e |-> Nil,
             gender |-> inferGender(in.originalText, in.transliteratedText, in.culture)]
  /\ UNCHANGED <<transliterations, transliteration_feedback, character_mappings, now,
                 call, responses, in>>

\* NewEngine(useStatistical, culturalOnly).InferGender(originalText, transliteratedText, culture, language)
CallEngineInferGender(e) ==
  /\ out = Nil
  /\ out' = [op |-> "Engine.InferGender", e |-> Ptr(e),
             gender |-> InferGender(e, in.originalText, in.transliteratedText, in.culture, in.language)]
  /\ UNCHANGED <<transliterations, transliteration_feedback, character_mappings, now,
                 call, responses, in>>

\* GetGenderFromTitle(title), for each word of the text
CallGetGenderFromTitle(title) ==
  /\ out = Nil
  /\ out' = [op |-> "GetGenderFromTitle", e |-> Nil, title |-> title, gender |-> GetGenderFromTitle(title)]
  /\ UNCHANGED <<transliterations, transliteration_feedback, character_mappings, now,
                 call, responses, in>>

\* no method reads culturalOnly
Engines == [useStatistical : BOOLEAN, culturalOnly : {FALSE}]

NextNames ==
  \/ CallParseName
  \/ CallParserParseName
  \/ CallInferGender
  \/ \E e \in Engines : CallEngineInferGender(e)
  \/ \E i \in 1..Len(Fields(in.transliteratedText)) : CallGetGenderFromTitle(Fields(in.transliteratedText)[i])

SpecNames == InitNames /\ [][NextNames]_vars

-----------------------------------------------------------------------------
(* Claims about the name parsers *)

\* the calls that return a name structure, and those that return an inference
NameOps == {"parseName", "Parser.ParseName"}

GenderOps == {"inferGender", "Engine.InferGender", "GetGenderFromTitle"}

\* the words of the parsed text
InputTokens == Fields(in.transliteratedText)

\* a word matches the title vocabulary of the parser that ran, whatever its
\* letter case, once '.' and ',' are trimmed
IsTitleToken(op, word) ==
  IF op = "parseName" THEN Trim(ToUpper(word), <<46, 44>>) \in titlePatterns
  ELSE HasKey(titleMapping, Cleaned(word))

\* C11: title extraction partitions the tokens: the words left for the name
\* split are exactly the input words that match no title, in their order and
\* unmodified; no title word stays behind and no other word is altered or lost.
C11_TitlesPartitionTokens ==
  (out # Nil /\ out.op \in NameOps) =>
    out.rest = SelectSeq(InputTokens, LAMBDA word : ~IsTitleToken(out.op, word))

\* a Japanese honorific suffix occurs in the text, in any letter case
HasHonorific(text) == \E i \in 1..Len(honorifics) : Contains(ToLower(text), honorifics[i])

\* the name fields of a structure and its formatted name
NameFields(name) == <<name.Family, name.First>> \o name.Middle

\* C12: a Japanese honorific suffix (-san, -kun, -chan, -sama, -sensei,
\* -senpai) attached to a word is never reported as a title, and for the
\* Japanese culture it is stripped, so that it appears in none of family,
\* first, middle and fullASCII.
C12_HonorificStripped ==
  (out # Nil /\ out.op \in NameOps /\ out.name # Nil) =>
    LET name == Deref(out.name)
    IN  /\ \A i \in 1..Len(name.Titles) : ~HasHonorific(name.Titles[i])
        /\ in.culture = "japanese" =>
             /\ \A i \in 1..Len(NameFields(name)) : ~HasHonorific(NameFields(name)[i])
             /\ ~HasHonorific(name.FullASCII)

RECURSIVE CountWords(_)
CountWords(texts) == IF texts = <<>> THEN 0 ELSE Len(Fields(Head(texts))) + CountWords(Tail(texts))

\* the words a structure reports: name fields, titles, suffixes and particles
TokenCount(name) ==
  CountWords(NameFields(name)) + Len(name.Titles) + Len(name.Suffixes) + Len(name.Particles)

\* C13: the words in family, first and middle plus the numbers of titles,
\* suffixes and particles never exceed the number of words of the parsed
\* text: no word is counted twice.
C13_NoTokenCountedTwice ==
  (out # Nil /\ out.op \in NameOps /\ out.name # Nil) => TokenCount(Deref(out.name)) <= Len(InputTokens)

-----------------------------------------------------------------------------
(* Claims about gender inference *)

StructuralMarkers(culture) ==
  IF culture = "vietnamese" THEN {<<<<118, 97, 110>>, "M">>, <<<<116, 104, 105>>, "F">>}
  ELSE IF culture = "arabic" THEN {<<<<98, 105, 110>>, "M">>, <<<<105, 98, 110>>, "M">>, <<<<98, 105, 110, 116>>, "F">>}
  ELSE IF culture = "indonesian" THEN {<<<<98, 105, 110>>, "M">>, <<<<98, 105, 110, 116, 105>>, "F">>}
  ELSE {}

\* the genders whose marker stands as a word between the first and the last word
MarkerGenders ==
  {m[2] : m \in {m \in StructuralMarkers(in.culture) :
                   \E i \in 2..(Len(InputTokens) - 1) : ToLower(InputTokens[i]) = m[1]}}

\* C15: when an explicit structural marker of the culture is present
\* (Vietnamese Van/Thi, Arabic bin/ibn or bint, Malay/Indonesian bin or
\* binti), the result is the marker's gender with source cultural_marker and
\* confidence at least 0.75, whatever the name lists and patterns would match.
C15_MarkerDecidesGender ==
  (out # Nil /\ out.op \in {"inferGender", "Engine.InferGender"}) =>
    \A g \in {"M", "F"} :
      MarkerGenders = {g} =>
        /\ out.gender.Value = g
        /\ out.gender.Source = "cultural_marker"
        /\ out.gender.Confidence >= 75

\* no marker, name list or pattern of the function that ran matches the name:
\* the engine's cultural tier answers "unknown"; the service finds none of the
\* marker substrings it looks for in the script of the request
NoTierMatches ==
  IF out.op = "Engine.InferGender"
  THEN inferFromCulturalMarkers(Deref(out.e), in.originalText, in.transliteratedText, in.culture, in.language).Source = "unknown"
  ELSE LET text == ToLower(in.transliteratedText)
       IN  /\ in.culture = "vietnamese" =>
                ~ContainsAny(text, {<<118, 97, 110>>, <<116, 104, 105>>}) /\ ~ContainsAny(ToLower(in.originalText), {<<118, 259, 110>>, <<116, 104, 7883>>})
           /\ in.culture = "arabic" => ~ContainsAny(text, {<<98, 105, 110, 32>>, <<105, 98, 110, 32>>, <<98, 105, 110, 116, 32>>})
           /\ in.culture = "indonesian" => ~ContainsAny(text, {<<98, 105, 110, 32>>, <<98, 105, 110, 116, 105, 32>>})

-----------------------------------------------------------------------------
(* Claims about the splits.  A split sees the words of cleanText, the text *)
(* left after titles and suffixes are taken out; family is reported in     *)
(* upper case, first and middle in title case.                             *)

SplitTokens == Fields(out.cleanText)

\* the three name fields equal the given family, first and middle words
SplitsAs(name, family, first, middle) ==
  /\ name.Family = ToUpper(family)
  /\ name.First = toTitleCase(first)
  /\ name.Middle = MapSeq(toTitleCase, middle)

\* a name was split under the given cultural convention
SplitUnder(culture) ==
  out # Nil /\ out.op \in NameOps /\ out.name # Nil /\ out.context = culture

\* C17: the Indonesian/Malaysian split: one word is a mononym, first only;
\* with a word equal to bin, binti or binte (any letter case) first is the
\* first word, middle all the others in order and family is empty; otherwise
\* first is the first word, family the last and middle the words between.
C17_IndonesianSplit ==
  SplitUnder("indonesian") =>
    LET parts == SplitTokens
        name == Deref(out.name)
    IN  /\ Len(parts) = 1 => SplitsAs(name, <<>>, parts[1], <<>>)
        /\ Len(parts) >= 2 =>
             IF \E i \in 1..Len(parts) : ToLower(parts[i]) \in {<<98, 105, 110>>, <<98, 105, 110, 116, 105>>, <<98, 105, 110, 116, 101>>}
             THEN SplitsAs(name, <<>>, parts[1], Tail(parts))
             ELSE SplitsAs(name, parts[Len(parts)], parts[1], Interior(parts))

\* the words of the input that match no title
NameTokens == SelectSeq(InputTokens, LAMBDA word : ~IsTitleToken(out.op, word))

\* C18: the Vietnamese split of a name of at least two words (titles apart):
\* family is the first word, first is the last word, middle is every word
\* between them in order, the gender markers Van and Thi included; "Doctor
\* Nguyen Van Minh" gives family NGUYEN, first Minh, middle [Van].
C18_VietnameseSplit ==
  SplitUnder("vietnamese") =>
    LET parts == NameTokens
    IN  Len(parts) >= 2 => SplitsAs(Deref(out.name), parts[1], parts[Len(parts)], Interior(parts))

ArabicMarkers == {<<98, 105, 110>>, <<105, 98, 110>>, <<98, 105, 110, 116>>}

\* C19 as stated: the Arabic split of at least two words: first is the first
\* word, family the last, middle the words between in order, the patronymic
\* markers bin/ibn/bint kept literally, with the spelling and the letter case
\* they have in the transliterated input.
C19_ArabicSplitMarkersLiteral ==
  (SplitUnder("arabic") /\ Len(SplitTokens) >= 2) =>
    LET parts == SplitTokens
        name == Deref(out.name)
    IN  /\ name.First = toTitleCase(parts[1])
        /\ name.Family = ToUpper(parts[Len(parts)])
        /\ name.Middle = [i \in 1..(Len(parts) - 2) |->
                            IF ToLower(parts[i + 1]) \in ArabicMarkers THEN parts[i + 1]
                            ELSE toTitleCase(parts[i + 1])]

\* C19 amended: the Arabic split of at least two words: first is the first
\* word, family the last, middle the words between in order; the patronymic
\* markers stay in middle and are title-cased like every other middle word
\* (bin becomes Bin).
C19_ArabicSplitMarkersTitleCased ==
  (SplitUnder("arabic") /\ Len(SplitTokens) >= 2) =>
    SplitsAs(Deref(out.name), SplitTokens[Len(SplitTokens)], SplitTokens[1], Interior(SplitTokens))

\* Parser.ParseName split "Aisha bin Khalid": the marker is reported as Bin
C19_Witness ==
  /\ SplitUnder("arabic") /\ out.op = "Parser.ParseName"
  /\ in.transliteratedText = <<65, 105, 115, 104, 97, 32, 98, 105, 110, 32, 75, 104, 97, 108, 105, 100>>
  /\ Deref(out.name).Middle = <<<<66, 105, 110>>>>

\* the positions strictly between the first and the last word that hold a
\* word of the Western particle set
ParticlePositions(parts) == {i \in 2..(Len(parts) - 1) : ToLower(parts[i]) \in particleSet}

\* the words at the given positions, in order
WordsAt(parts, positions) ==
  LET indices == SelectSeq([i \in 1..Len(parts) |-> i], LAMBDA i : i \in positions)
  IN  [k \in 1..Len(indices) |-> parts[indices[k]]]

-----------------------------------------------------------------------------
(* Claims about the parsers' results as a whole *)

\* a structure with no name in it: empty family, first and fullASCII, and
\* no middle name, title, suffix or particle
IsEmptyStructure(name) ==
  /\ name.Family = <<>> /\ name.First = <<>> /\ name.FullASCII = <<>>
  /\ name.Middle = <<>> /\ name.Titles = <<>> /\ name.Suffixes = <<>> /\ name.Particles = <<>>

\* C21: the name parser never returns a missing (nil) result, and for the
\* empty transliterated text it returns a structure whose family, first and
\* fullASCII are empty and whose middle, titles, suffixes and particles are
\* empty lists.
C21_NeverNilEmptyGivesEmptyStructure ==
  (out # Nil /\ out.op \in NameOps) =>
    /\ out.name # Nil
    /\ in.transliteratedText = <<>> => IsEmptyStructure(Deref(out.name))

-----------------------------------------------------------------------------
(* Claims about the tiers of character transliteration *)

TransliterationOps == {"performTransliteration", "Engine.Transliterate"}

\* the call ran in the transliteration engine
IsEngineCall == out.op = "Engine.Transliterate"

\* the rows of the dictionary the call finds for a rune: none when the engine
\* is configured without a dictionary or when the query fails
DictionaryRows(r) ==
  IF out.dbFails THEN {}
  ELSE IF IsEngineCall
    THEN IF Deref(out.config).UseDatabase
           THEN EngineMappingRows(<<r>>, in.inputScript, in.outputScript, LocaleString(in.inputLocale))
           ELSE {}
  ELSE MappingRows(<<r>>, in.inputScript, in.outputScript, in.inputLocale)

\* the entry of the dictionary for a rune that has rows
DictionaryEntry(r) ==
  IF IsEngineCall
    THEN lookupInDatabase(<<r>>, in.inputScript, in.outputScript, LocaleString(in.inputLocale))
    ELSE getCharacterMapping(FALSE, <<r>>, in.inputScript, in.outputScript, in.inputLocale)

\* the built-in table the call consults for its pair of scripts, the empty
\* table when it consults none
BuiltinTable ==
  IF IsEngineCall
    THEN IF in.outputScript \notin {"latin", "ascii"} THEN <<>>
         ELSE IF in.inputScript = "cyrillic" THEN EngineCyrillicMapping
         ELSE IF in.inputScript = "chinese" THEN EngineChineseMapping
         ELSE <<>>
  ELSE IF in.inputScript = "cyrillic" /\ in.outputScript = "latin" THEN cyrillicMap
  ELSE IF in.inputScript = "chinese" THEN chineseMap
  ELSE <<>>

\* one of the two upper tiers has a mapping for the rune
HasUpperTier(r) == DictionaryRows(r) # {} \/ r \in DOMAIN BuiltinTable

\* what the first upper tier that has a mapping gives for the rune
UpperTierOutput(r) == IF DictionaryRows(r) # {} THEN DictionaryEntry(r) ELSE BuiltinTable[r]

\* C22: for each rune the first tier that has a mapping for it is used, in
\* the order dictionary, built-in table of the source script, ASCII
\* approximation, final fallback: a rune with a dictionary entry comes out as
\* that entry, and a rune without one but with an entry in the built-in
\* table, an entry that is the empty string included (the Cyrillic hard and
\* soft signs), comes out as that entry; no lower tier ('?' or the unchanged
\* rune) is used.
C22_FirstTierWithMappingIsUsed ==
  (out # Nil /\ out.op \in TransliterationOps /\ out.err = NoErr /\ ValidString(in.text)) =>
    LET rs == Runes(in.text)
    IN  (\A i \in 1..Len(rs) : HasUpperTier(rs[i])) =>
          out.output = Concat([i \in 1..Len(rs) |-> UpperTierOutput(rs[i])])

\* the lookup finds no mapping for any rune of the text, or fails
NoLookupSucceeds == \A i \in 1..Len(Runes(in.text)) : DictionaryRows(Runes(in.text)[i]) = {}

\* the configuration of the call without its dictionary
WithoutDatabase(config) == [config EXCEPT !.UseDatabase = FALSE]

\* what the tiers below the dictionary of performTransliteration give for a rune
LowerTiers(r) ==
  IF applyBuiltinRules(r, in.inputScript, in.outputScript) # <<>>
    THEN applyBuiltinRules(r, in.inputScript, in.outputScript)
  ELSE IF in.outputScript = "ascii" THEN approximateToASCII(r)
  ELSE <<r>>

\* the error and the output of the same call with no dictionary configured
NoDictionaryResult ==
  IF IsEngineCall
    THEN LET res == EngineTransliterate(WithoutDatabase(Deref(out.config)), FALSE, in.text,
                                        in.inputScript, in.outputScript, LocaleString(in.inputLocale))
         IN  [err |-> res.err, output |-> IF res.err = NoErr THEN Deref(res.result).Output ELSE <<>>]
    ELSE [err |-> NoErr,
          output |-> Concat([i \in 1..Len(Runes(in.text)) |-> LowerTiers(Runes(in.text)[i])])]

\* C23: a dictionary lookup that finds no mapping, or that fails, never makes
\* transliteration fail: the runes are handled by the built-in table or a
\* later tier, and the error and the output of the call are those of the
\* same call with no dictionary configured.
C23_FailedLookupIsNormalFallback ==
  (out # Nil /\ out.op \in TransliterationOps /\ NoLookupSucceeds) =>
    /\ out.err = NoDictionaryResult.err
    /\ out.output = NoDictionaryResult.output
    /\ ValidString(in.text) => out.err = NoErr

\* the query failed for a rune the dictionary has a row for, and the engine
\* took the rune from its built-in table ("ya", where the row says "ja")
C23_Witness ==
  /\ out # Nil /\ IsEngineCall /\ out.dbFails /\ Deref(out.config).UseDatabase
  /\ RowYaAscii \in character_mappings
  /\ in.text = <<1103>> /\ in.inputScript = "cyrillic" /\ in.outputScript = "ascii"
  /\ out.err = NoErr /\ out.output = <<121, 97>>

-----------------------------------------------------------------------------
(* Claims about script detection *)

\* the distinct Vietnamese-specific letters of a text
VietnameseLetters(text) ==
  {Runes(text)[i] : i \in {i \in 1..Len(Runes(text)) :
                             IsLetter(Runes(text)[i]) /\ classifyRune(Runes(text)[i]) = "vietnamese"}}

\* C24: DetectScript returns vietnamese only when at least two distinct
\* Vietnamese-specific diacritic letters are present in the text; a text
\* with a single Vietnamese-specific letter among other Latin letters is not
\* labelled vietnamese.
C24_VietnameseNeedsTwoDistinctLetters ==
  (out # Nil /\ Deref(out).Script = "vietnamese") => Cardinality(VietnameseLetters(in)) >= 2

\* C28: DetectScript is deterministic: two calls with the same text return
\* the same script and the same confidence, also for a text in which two
\* scripts have the same number of letters (one Latin and one Cyrillic
\* letter).
C28_DetectScriptDeterministic ==
  out # Nil =>
    \A info \in DetectScript(in) :
      /\ info.Script = Deref(out).Script
      /\ info.Confidence = Deref(out).Confidence

-----------------------------------------------------------------------------
(* Claims about suffixes, cultural context and the formatted name *)

\* a word matches the suffix vocabulary, whatever its letter case, once '.'
\* and ',' are trimmed
IsSuffixToken(word) == HasKey(suffixMapping, Cleaned(word))

\* the length of the longest run of suffix words at the end of the words
TrailingSuffixes(words) ==
  CHOOSE k \in 0..Len(words) :
    /\ \A i \in (Len(words) - k + 1)..Len(words) : IsSuffixToken(words[i])
    /\ k < Len(words) => ~IsSuffixToken(words[Len(words) - k])

\* C25: suffix extraction returns exactly the maximal run of suffix words at
\* the end of the words left after title removal: a suffix word followed by a
\* non-suffix word (the V of John V Smith) is not reported, and every
\* reported suffix is removed from the words handed to the name split.
C25_SuffixesAreTrailingRun ==
  (out # Nil /\ out.op = "Parser.ParseName") =>
    LET words == out.rest
        k == TrailingSuffixes(words)
        run == SubSeq(words, Len(words) - k + 1, Len(words))
    IN  /\ Deref(out.name).Suffixes = [i \in 1..k |-> ValueOf(suffixMapping, Cleaned(run[i]))]
        /\ SplitTokens = SubSeq(words, 1, Len(words) - k)

\* the cultures a hint can name that getCulturalContext knows by name
HintedCultures == {"vietnamese", "chinese", "japanese", "korean", "arabic", "indonesian"}

\* C26: an explicit culture hint has priority over the heuristics on the
\* original text: when the caller supplies a culture that names a supported
\* culture, the resolved culture is that one, even if the original text holds
\* Vietnamese diacritics or CJK, kana, Hangul or Arabic characters.
C26_ExplicitHintWins ==
  (out # Nil /\ out.op = "Parser.ParseName" /\ in.transliteratedText # <<>>
     /\ in.culture \in HintedCultures) =>
    out.context = in.culture

\* the name order of the culture a name was split under, as
\* getCulturalContext fixes it for the culture
NameOrderOf(culture) == getCulturalContext(culture, <<>>, <<>>).NameOrder

\* the non-empty name parts of a structure in the given order
OrderedParts(name, order) ==
  LET present(s) == IF s # <<>> THEN <<s>> ELSE <<>>
      middle == SelectSeq(name.Middle, LAMBDA m : m # <<>>)
  IN  IF order = "family-first" THEN present(name.Family) \o present(name.First) \o middle
      ELSE present(name.First) \o middle \o present(name.Family)

\* C27: fullASCII is the space-joined sequence of all titles, then the
\* non-empty name parts in the order of the culture's nameOrder (family-first:
\* family, given, middle; given-first: given, middle, family), then all
\* suffixes, so that each of them appears in it exactly once.
C27_FullASCIIIsOrderedJoin ==
  (out # Nil /\ out.op \in NameOps /\ out.name # Nil) =>
    LET name == Deref(out.name)
    IN  name.FullASCII = Join(name.Titles \o OrderedParts(name, NameOrderOf(out.context)) \o name.Suffixes, <<32>>)

-----------------------------------------------------------------------------
(* Concurrent requests.  The handler of POST /api/transliterate runs once   *)
(* per request, and the handlers of concurrent requests interleave at their *)
(* database statements: the SELECT of getCachedTransliteration, then either *)
(* the UPDATE of the usage count or the INSERT of storeTransliteration.     *)
(* in holds the request of each handler, out its position and its locals.   *)

MaxHandlers == 2

Handlers == 1..MaxHandlers

\* the requests that arrive at the same time
ConcurrentRequests ==
  { Request(<<1103>>, "cyrillic", "latin", Nil),            \* "я"
    Request(<<1103>>, "cyrillic", "latin", Ptr(LocaleRu)),
    Request(<<1103>>, "", "latin", Nil),                    \* script to be detected
    Request(<<169>>, "latin", "ascii", Nil),                \* "©": comes to nothing
    Request(<<97>>, "latin", "cyrillic", Nil) }             \* no supported pair

\* a handler before its first statement
Started == [pc |-> "start", cached |-> Nil, err |-> NoErr, resp |-> Nil]

\* a handler that has returned
Returned(err, resp) == [pc |-> "done", cached |-> Nil, err |-> err, resp |-> resp]

InitConcurrent ==
  /\ transliterations = <<>>
  /\ transliteration_feedback = <<>>
  /\ character_mappings = {}
  /\ now = 0
  /\ call = NoCall
  /\ responses = <<>>
  /\ in \in [Handlers -> ConcurrentRequests]
  /\ out = [h \in Handlers |-> Started]

\* Transliterate up to the SELECT of getCachedTransliteration
TransliterateSelect(h) ==
  /\ out[h].pc = "start"
  /\ LET r           == Deref(in[h])
         inputScript == ResolvedScript(r)
         cached      == getCachedTransliteration(r.Text, inputScript, r.OutputScript,
                                                 r.InputLocale)
     IN  out' = [out EXCEPT ![h] =
                   IF validateTransliterationRequest(in[h]) # NoErr
                     THEN Returned("invalid request", Nil)
                   ELSE IF r.InputScript = "" /\ inputScript = "unknown"
                     THEN Returned("unable to detect input script", Nil)
                   ELSE IF ~isSupportedScriptPair(inputScript, r.OutputScript)
                     THEN Returned("unsupported script conversion", Nil)
                   ELSE [pc |-> "selected", cached |-> cached, err |-> NoErr, resp |-> Nil]]
  /\ UNCHANGED <<transliterations, transliteration_feedback, character_mappings, now,
                 call, responses, in>>

\* Transliterate after a cache hit: the UPDATE of the usage count, and the return
TransliterateUpdate(h) ==
  /\ out[h].pc = "selected" /\ out[h].cached # Nil
  /\ transliterations' = UpdateUsage(Deref(out[h].cached).ID)
  /\ now' = now + 1
  /\ out' = [out EXCEPT ![h] = Returned(NoErr, out[h].cached)]
  /\ UNCHANGED <<transliteration_feedback, character_mappings, call, responses, in>>

\* Transliterate after a cache miss: the transliteration, the INSERT of
\* storeTransliteration, and the return
TransliterateStore(h) ==
  /\ out[h].pc = "selected" /\ out[h].cached = Nil
  /\ LET r           == Deref(in[h])
         inputScript == ResolvedScript(r)
         done        == performTransliterationWithValidation(
                          FALSE, r.Text, inputScript, r.OutputScript, r.InputLocale)
         confidenceScore ==
           calculateConfidence(r.Text, done.output, inputScript, r.OutputScript)
     IN  IF done.err # NoErr
           THEN /\ out' = [out EXCEPT ![h] = Returned("transliteration failed", Nil)]
                /\ UNCHANGED <<transliterations, now>>
           ELSE /\ transliterations' =
                     Append(transliterations,
                            StoredRow(r.Text, done.output, inputScript, r.OutputScript,
                                      r.InputLocale, confidenceScore))
                /\ now' = now + 1
                /\ out' = [out EXCEPT ![h] =
                             Returned(NoErr, Ptr(storeTransliteration(r.Text, done.output,
                                        inputScript, r.OutputScript, r.InputLocale,
                                        confidenceScore)))]
  /\ UNCHANGED <<transliteration_feedback, character_mappings, call, responses, in>>

NextConcurrent ==
  \E h \in Handlers :
    \/ TransliterateSelect(h)
    \/ TransliterateUpdate(h)
    \/ TransliterateStore(h)

SpecConcurrent == InitConcurrent /\ [][NextConcurrent]_vars

\* the key of a stored row, and of the request of a handler
RowKey(t) == <<t.input_text, t.input_script, t.output_script, t.input_locale>>

RequestKey(h) ==
  <<Deref(in[h]).Text, ResolvedScript(Deref(in[h])), Deref(in[h]).OutputScript,
    Deref(in[h]).InputLocale>>

\* the handler has answered its request with a record
Answers(h) == out[h].pc = "done" /\ out[h].err = NoErr

\* C29: under any interleaving of concurrent Transliterate requests the
\* store never holds two transliterations rows with the same text, input
\* script, output script and locale, and two concurrent first-time requests
\* for the same key are both answered with the ID of the one stored row.
C29_OneRowPerKey ==
  /\ \A i, j \in 1..Len(transliterations) :
       RowKey(transliterations[i]) = RowKey(transliterations[j]) => i = j
  /\ \A g, h \in Handlers :
       (Answers(g) /\ Answers(h) /\ RequestKey(g) = RequestKey(h))
         => Deref(out[g].resp).ID = Deref(out[h].resp).ID

-----------------------------------------------------------------------------
(* Claims about the patronymic markers of gender inference *)

\* the patronymic markers, by the gender they stand for
PatronymicMarkers(g) == IF g = "M" THEN {<<98, 105, 110>>, <<105, 98, 110>>} ELSE {<<98, 105, 110, 116>>, <<98, 105, 110, 116, 105>>, <<98, 105, 110, 116, 101>>}

\* what the patronymic branch of the function that ran returns for a
\* gender: Engine.inferArabic 0.90, Engine.inferIndonesian 0.88, inferGender
\* of the service 0.75 for arabic and 0.80 for indonesian
PatronymicInference(g) ==
  Inference(g,
            IF out.op = "Engine.InferGender"
              THEN (IF in.culture = "arabic" THEN 90 ELSE 88)
              ELSE (IF in.culture = "arabic" THEN 75 ELSE 80),
            "cultural_marker")

\* C30: gender inference reports a patronymic marker (M from bin/ibn, F from
\* bint/binti/binte) only when some whole word of the transliterated text
\* equals that marker; a word that merely ends in the marker's letters and is
\* followed by another word (Robin Hood) gives no cultural_marker result.
C30_PatronymicNeedsWholeToken ==
  (out # Nil /\ out.op \in {"inferGender", "Engine.InferGender"}
     /\ in.culture \in {"arabic", "indonesian"}) =>
    \A g \in {"M", "F"} :
      out.gender = PatronymicInference(g) =>
        \E i \in 1..Len(InputTokens) : ToLower(InputTokens[i]) \in PatronymicMarkers(g)

=============================================================================
